---- MODULE Spec2Model ----
(***************************************************************************)
(* Model of the job lifecycle engine of the model-validation bot:          *)
(* app/services/job_manager.py (JobManager) over app/models/jobs.py (Job). *)
(*                                                                         *)
(* Execution model.  JobManager runs on one asyncio event loop.  A         *)
(* coroutine runs without interruption from one suspension point (an       *)
(* await that really suspends: asyncio.sleep, the HTTP call of the GitHub  *)
(* client) to the next, so every action below is one such run.             *)
(* start_job and cancel_job hold _job_lock over a body without any await;  *)
(* the lock is therefore free whenever a coroutine asks for it, and each   *)
(* call is one run.  asyncio.CancelledError derives from BaseException     *)
(* (Python 3.8 and later, which the pydantic_settings import of            *)
(* app/core/config.py needs), so "except Exception" does not catch it.     *)
(*                                                                         *)
(* Abstractions.  datetime.utcnow() reads a clock that never runs          *)
(* backwards: a reading is any time in 0..MaxTime that is not before a     *)
(* reading already stored in a job (Now).  A log entry is the pair         *)
(* <<text, argument>> of the message, without the timestamp prefix add_log *)
(* puts before it.  created_at, command_config and the output, artifacts   *)
(* and metrics of a result are never read by the engine and are left out.  *)
(***************************************************************************)
EXTENDS Integers, Sequences, FiniteSets, TLC

\* ------------------------------------------------------------------ bounds
MaxTime == 1        \* clock readings are in 0..MaxTime
MaxCalls == 3       \* at most this many start_job / cancel_job calls in a run
MaxSteps == 5       \* update_progress is probed with completed, total in -1..MaxSteps
MaxUpdates == 2     \* at most this many probed update_progress calls in a run
MaxRequests == 3    \* at most this many requests to the command and jobs API in a run
MaxExecutions == 2  \* at most this many workflow executions submitted in a run
MaxWorkflowCalls == 3  \* at most this many calls of the MockWorkflowService in a run

\* ------------------------------------------------------------- definitions
JobIds == {"j1", "j2"}
Reasons == {"", "user requested"}

\* JobStatus
PENDING == "pending"
RUNNING == "running"
COMPLETED == "completed"
FAILED == "failed"
CANCELLED == "cancelled"
JobStatus == {PENDING, RUNNING, COMPLETED, FAILED, CANCELLED}

\* JobType
TRAIN == "train"
EVAL == "eval"
TEST == "test"
PIPELINE == "pipeline"
MODEL_VALIDATION == "model_validation"
JobType == {TRAIN, EVAL, TEST, PIPELINE, MODEL_VALIDATION}

\* Optional[...] values: None is the empty sequence, a value v is <<v>>.
None == <<>>
Some(v) == <<v>>

\* The step lists of the three looped work functions.
TrainSteps == <<"Data loading", "Model setup", "Training", "Validation", "Saving results">>
EvalSteps == <<"Loading models", "Running evaluation", "Computing metrics", "Generating report">>
TestSteps == <<"Running smoke tests", "Running integration tests", "Generating test report">>

Steps(job_type) ==
    CASE job_type = TRAIN -> TrainSteps
      [] job_type = EVAL -> EvalSteps
      [] job_type = TEST -> TestSteps
      [] OTHER -> <<>>

InitStep(job_type) ==
    CASE job_type = TRAIN -> "Initializing training"
      [] job_type = EVAL -> "Initializing evaluation"
      [] job_type = TEST -> "Initializing tests"
      [] OTHER -> "Initializing pipeline"

\* The message of the first update_progress of a work function.
InitMessage(job_type) ==
    CASE job_type = TRAIN -> "Setting up training environment"
      [] job_type = EVAL -> "Loading models for evaluation"
      [] job_type = TEST -> "Setting up test environment"
      [] OTHER -> "Planning pipeline steps"

VARIABLES
    jobs,            \* JobManager._jobs: job id -> Job
    job_order,       \* the keys of _jobs in insertion order (a dict keeps it)
    active_tasks,    \* JobManager._active_tasks: the job ids that have a task handle
    tasks,           \* the asyncio task created for each job id: where it is suspended
    spawned,         \* job id -> number of asyncio.create_task calls made for it
    notifier_calls,  \* job id -> the update_pr_comment calls issued for it, in order
    last,            \* the last start_job / cancel_job call and what it returned
    ncalls,          \* number of start_job / cancel_job calls so far
    universe,        \* the ids, job types and origins the callers start jobs with
    job_lock,        \* whether JobManager._job_lock is held
    notifier_failed, \* the job ids for which an update_pr_comment call has failed
    managers,        \* the tables of the JobManager instances of the process
    reply,           \* what the last request to the command / jobs API was answered
    probe,           \* a Job that update_progress is called on with any arguments
    executions,      \* MockWorkflowService._executions, with the task of each execution
    wf_last,         \* the last call of the MockWorkflowService and what it returned
    stream           \* the server-sent-events stream of the jobs API: where its
                     \* generator is suspended and the update it emitted last

vars == <<jobs, job_order, active_tasks, tasks, spawned, notifier_calls, last, ncalls,
          universe, job_lock, notifier_failed, managers, reply, probe, executions,
          wf_last, stream>>

\* The variables of the engine, of the API layer and of the progress probe.
engine == <<jobs, job_order, active_tasks, tasks, spawned, notifier_calls, last, ncalls,
            universe, job_lock, notifier_failed>>
facade == <<managers, reply>>
workflow == <<executions, wf_last>>

\* ---------------------------------------------------------------- Job model
\* Job(...) as the command dispatcher builds it: status PENDING, started_at
\* and completed_at None, no progress, no result, one "Command received" log
\* line.
NewJob(job_id, job_type, github_context, github_comment_id) ==
    [job_id |-> job_id,
     job_type |-> job_type,
     status |-> PENDING,
     github_context |-> github_context,
     github_comment_id |-> github_comment_id,
     started_at |-> None,
     completed_at |-> None,
     progress |-> None,
     result |-> None,
     logs |-> <<<<"Command received", "">>>>]

add_log(job, message, arg) ==
    [job EXCEPT !.logs = Append(@, <<message, arg>>)]

\* progress_percentage in tenths of a percent: (completed / total) * 100.
Percentage(completed, total) ==
    IF total > 0 THEN (completed * 1000) \div total ELSE 0

\* JobProgress(...) without the bounds of progress_percentage.
JobProgress_NoBounds(step, total, completed, pct) ==
    Some([current_step |-> step,
          total_steps |-> total,
          completed_steps |-> completed,
          progress_percentage |-> pct])

\* JobProgress(...): the model object, or None when pydantic raises
\* ValidationError because progress_percentage is not within ge=0, le=100.
JobProgress(step, total, completed, pct) ==
    IF 0 <= pct /\ pct <= 1000
    THEN Some([current_step |-> step,
               total_steps |-> total,
               completed_steps |-> completed,
               progress_percentage |-> pct])
    ELSE None

\* update_progress raises (the ValidationError of JobProgress) before it has
\* assigned anything.
update_progress_raises(completed, total) ==
    JobProgress("", total, completed, Percentage(completed, total)) = None

\* The job as update_progress leaves it: unchanged when it raises.
update_progress(job, step, completed, total, message, arg) ==
    LET p == JobProgress(step, total, completed, Percentage(completed, total))
        j == [job EXCEPT !.progress = p]
    IN IF p = None THEN job
       ELSE IF message # "" THEN add_log(j, message, arg) ELSE j

mark_started(job, t) ==
    add_log([job EXCEPT !.status = RUNNING, !.started_at = Some(t)],
            "Job started", "")

mark_completed(job, result, t) ==
    LET st == IF result.success THEN COMPLETED ELSE FAILED
    IN add_log([job EXCEPT !.status = st,
                           !.completed_at = Some(t),
                           !.result = Some(result)],
               "Job completed with status", st)

\* mark_cancelled that stamps started_at along with completed_at.
mark_cancelled_StampsStartedAt(job, reason, t) ==
    add_log([job EXCEPT !.status = CANCELLED, !.started_at = Some(t),
                        !.completed_at = Some(t)],
            "Job cancelled", reason)

\* mark_cancelled without the completed_at assignment.
mark_cancelled_NoCompletedAt(job, reason, t) ==
    add_log([job EXCEPT !.status = CANCELLED], "Job cancelled", reason)

mark_cancelled(job, reason, t) ==
    add_log([job EXCEPT !.status = CANCELLED, !.completed_at = Some(t)],
            "Job cancelled", reason)

\* JobResult(success=True, ...) of the work functions, and the failure result
\* _execute_job builds from a raised error.
SuccessResult == [success |-> TRUE, error_message |-> ""]

\* The failure result built without the text of the error.
FailureResult_NoMessage(msg) == [success |-> FALSE, error_message |-> ""]
FailureResult(msg) == [success |-> FALSE, error_message |-> msg]

\* -------------------------------------------------------------- task model
NoTask == [pc |-> "none", i |-> 0, must_cancel |-> FALSE, handler |-> FALSE]
NewTask == [pc |-> "created", i |-> 0, must_cancel |-> FALSE, handler |-> FALSE]

\* The guard reduced to its first half: a GitHub context is enough.
HasNotifier_ContextOnly(job) == job.github_context

\* The guard both notify functions use before they update the comment.
HasNotifier(job) == job.github_context /\ job.github_comment_id

\* The origins a job is started with: no GitHub context (manual command), a
\* context without comment id (the initial comment could not be created), both.
Origins == {<<FALSE, FALSE>>, <<TRUE, FALSE>>, <<TRUE, TRUE>>}

\* What the callers of a run start jobs with: one job id with every job type
\* and origin, or two job ids (two jobs side by side) with a looped work
\* function or the undispatched type.  cancel_job is called with every id of
\* JobIds in both.
Universes ==
    {[ids |-> {"j1"}, types |-> JobType, origins |-> Origins],
     [ids |-> JobIds, types |-> {TEST, MODEL_VALIDATION},
      origins |-> {<<FALSE, FALSE>>, <<TRUE, TRUE>>}]}

\* The job of the progress probe, and the probe before any call: the job, the
\* arguments of the last update_progress call and whether that call raised.
ProbeJob == mark_started(NewJob("probe", TEST, FALSE, FALSE), 0)
NoProbe == [job |-> ProbeJob, args |-> None, raised |-> FALSE, n |-> 0]

\* No request answered yet.  A reply tells the request it answers (op), the
\* job id it is about (0: none), whether the job was found, and the ids
\* listed as active; n counts the requests and text is the command text of
\* the request, if it had one; context_type is where a GitHub comment was
\* made ("issue" or "pr"), None for any other request.
NoReply == [n |-> 0, op |-> "none", text |-> None, context_type |-> None,
            job_id |-> 0, found |-> FALSE, listed |-> {}]

\* No call of the MockWorkflowService yet.  A call tells its name, the
\* execution id it is about or returns (0: none), the status it read (None:
\* none), whether it raised and what cancel_execution returned; n counts the
\* calls and workflow_id is the argument of submit_workflow.
NoCall == [n |-> 0, op |-> "none", workflow_id |-> "", execution_id |-> 0,
           status |-> None, raised |-> FALSE, ret |-> FALSE]

\* No stream requested yet.  update is the status shown by the update the
\* generator yielded last (None: none yet), or "Job not found".
NoStream == [pc |-> "none", job_id |-> "", update |-> None]

\* The state after construction, for callers that start the jobs of u.
InitFor(u) ==
    /\ universe = u
    /\ job_lock = FALSE
    /\ notifier_failed = {}
    /\ managers = <<<<>>>>
    /\ reply = NoReply
    /\ probe = NoProbe
    /\ executions = <<>>
    /\ wf_last = NoCall
    /\ stream = NoStream
    /\ jobs = <<>>
    /\ job_order = <<>>
    /\ active_tasks = {}
    /\ tasks = [id \in JobIds |-> NoTask]
    /\ spawned = [id \in JobIds |-> 0]
    /\ notifier_calls = [id \in JobIds |-> <<>>]
    /\ last = [op |-> "none", id |-> "", reason |-> "", ret |-> FALSE]
    /\ ncalls = 0

Init == \E u \in Universes : InitFor(u)

\* The readings datetime.utcnow() can give: the clock is not before any
\* timestamp it gave earlier.
Stamps ==
    UNION {{j.started_at[k] : k \in DOMAIN j.started_at} \cup
           {j.completed_at[k] : k \in DOMAIN j.completed_at} :
           j \in {jobs[id] : id \in DOMAIN jobs}}

Now == {t \in 0..MaxTime : \A s \in Stamps : s <= t}

\* JobManager.get_job(job_id): the stored job, or None.
get_job(job_id) == IF job_id \in DOMAIN jobs THEN Some(jobs[job_id]) ELSE None

\* The filter of get_active_jobs written as "not completed and not failed".
IsActive_NotCompletedOrFailed(job_id) == jobs[job_id].status \notin {COMPLETED, FAILED}

\* JobManager.get_active_jobs(): the stored jobs that are pending or running,
\* in the order of the table.
IsActive(job_id) == jobs[job_id].status \in {PENDING, RUNNING}

get_active_jobs ==
    LET ids == SelectSeq(job_order, IsActive)
    IN [k \in DOMAIN ids |-> jobs[ids[k]]]

\* start_job without the "if job.job_id in self._jobs" check.
start_job_NoDuplicateCheck(job, t) ==
    /\ ncalls < MaxCalls
    /\ ncalls' = ncalls + 1
    /\ ~job_lock /\ job_lock' = FALSE
    /\ jobs' = (job.job_id :> mark_started(job, t)) @@ jobs
    /\ job_order' = IF job.job_id \in DOMAIN jobs THEN job_order
                    ELSE Append(job_order, job.job_id)
    /\ tasks' = [tasks EXCEPT ![job.job_id] = NewTask]
    /\ spawned' = [spawned EXCEPT ![job.job_id] = @ + 1]
    /\ active_tasks' = active_tasks \cup {job.job_id}
    /\ last' = [op |-> "start", id |-> job.job_id, reason |-> "", ret |-> TRUE]
    /\ UNCHANGED <<notifier_calls, universe, notifier_failed, facade, probe, workflow, stream>>

\* start_job that looks for the id in _active_tasks instead of _jobs.
start_job_ChecksActiveTasks(job, t) ==
    /\ ncalls < MaxCalls
    /\ ncalls' = ncalls + 1
    /\ ~job_lock /\ job_lock' = FALSE
    /\ IF job.job_id \in active_tasks
       THEN /\ last' = [op |-> "start", id |-> job.job_id, reason |-> "", ret |-> FALSE]
            /\ UNCHANGED <<jobs, job_order, active_tasks, tasks, spawned>>
       ELSE /\ jobs' = (job.job_id :> mark_started(job, t)) @@ jobs
            /\ job_order' = IF job.job_id \in DOMAIN jobs THEN job_order
                            ELSE Append(job_order, job.job_id)
            /\ tasks' = [tasks EXCEPT ![job.job_id] = NewTask]
            /\ spawned' = [spawned EXCEPT ![job.job_id] = @ + 1]
            /\ active_tasks' = active_tasks \cup {job.job_id}
            /\ last' = [op |-> "start", id |-> job.job_id, reason |-> "", ret |-> TRUE]
    /\ UNCHANGED <<notifier_calls, universe, notifier_failed, facade, probe, workflow, stream>>

\* JobManager.start_job(job).  The body of "async with self._job_lock" has no
\* await: the call takes the lock when it is free and has released it when
\* it returns, all within one run of the caller.
start_job(job, t) ==
    /\ ncalls < MaxCalls
    /\ ncalls' = ncalls + 1
    /\ ~job_lock /\ job_lock' = FALSE
    /\ IF job.job_id \in DOMAIN jobs
       THEN /\ last' = [op |-> "start", id |-> job.job_id, reason |-> "", ret |-> FALSE]
            /\ UNCHANGED <<jobs, job_order, active_tasks, tasks, spawned>>
       ELSE /\ jobs' = jobs @@ (job.job_id :> mark_started(job, t))
            /\ job_order' = Append(job_order, job.job_id)
            /\ tasks' = [tasks EXCEPT ![job.job_id] = NewTask]
            /\ spawned' = [spawned EXCEPT ![job.job_id] = @ + 1]
            /\ active_tasks' = active_tasks \cup {job.job_id}
            /\ last' = [op |-> "start", id |-> job.job_id, reason |-> "", ret |-> TRUE]
    /\ UNCHANGED <<notifier_calls, universe, notifier_failed, facade, probe, workflow, stream>>

\* cancel_job that refuses a job that is already completed, failed or
\* cancelled and returns False for it.
cancel_job_RefusesFinished(job_id, reason, t) ==
    /\ ncalls < MaxCalls
    /\ ncalls' = ncalls + 1
    /\ ~job_lock /\ job_lock' = FALSE
    /\ IF job_id \notin DOMAIN jobs
          \/ jobs[job_id].status \in {COMPLETED, FAILED, CANCELLED}
       THEN /\ last' = [op |-> "cancel", id |-> job_id, reason |-> reason, ret |-> FALSE]
            /\ UNCHANGED <<jobs, active_tasks, tasks>>
       ELSE /\ IF job_id \in active_tasks
               THEN /\ tasks' = [tasks EXCEPT ![job_id].must_cancel = TRUE]
                    /\ active_tasks' = active_tasks \ {job_id}
               ELSE UNCHANGED <<tasks, active_tasks>>
            /\ jobs' = [jobs EXCEPT ![job_id] = mark_cancelled(@, reason, t)]
            /\ last' = [op |-> "cancel", id |-> job_id, reason |-> reason, ret |-> TRUE]
    /\ UNCHANGED <<job_order, spawned, notifier_calls, universe, notifier_failed, facade, probe, workflow, stream>>

\* cancel_job without the Task.cancel() call: the handle is dropped and the
\* job marked, and the task is left to run.
cancel_job_NoTaskCancel(job_id, reason, t) ==
    /\ ncalls < MaxCalls
    /\ ncalls' = ncalls + 1
    /\ ~job_lock /\ job_lock' = FALSE
    /\ IF job_id \notin DOMAIN jobs
       THEN /\ last' = [op |-> "cancel", id |-> job_id, reason |-> reason, ret |-> FALSE]
            /\ UNCHANGED <<jobs, active_tasks, tasks>>
       ELSE /\ active_tasks' = active_tasks \ {job_id}
            /\ jobs' = [jobs EXCEPT ![job_id] = mark_cancelled(@, reason, t)]
            /\ last' = [op |-> "cancel", id |-> job_id, reason |-> reason, ret |-> TRUE]
            /\ UNCHANGED tasks
    /\ UNCHANGED <<job_order, spawned, notifier_calls, universe, notifier_failed, facade, probe, workflow, stream>>

\* JobManager.cancel_job(job_id, reason), under the lock like start_job.
cancel_job(job_id, reason, t) ==
    /\ ncalls < MaxCalls
    /\ ncalls' = ncalls + 1
    /\ ~job_lock /\ job_lock' = FALSE
    /\ IF job_id \notin DOMAIN jobs
       THEN /\ last' = [op |-> "cancel", id |-> job_id, reason |-> reason, ret |-> FALSE]
            /\ UNCHANGED <<jobs, active_tasks, tasks>>
       ELSE /\ IF job_id \in active_tasks
               THEN /\ tasks' = [tasks EXCEPT ![job_id].must_cancel = TRUE]
                    /\ active_tasks' = active_tasks \ {job_id}
               ELSE UNCHANGED <<tasks, active_tasks>>
            /\ jobs' = [jobs EXCEPT ![job_id] = mark_cancelled(@, reason, t)]
            /\ last' = [op |-> "cancel", id |-> job_id, reason |-> reason, ret |-> TRUE]
    /\ UNCHANGED <<job_order, spawned, notifier_calls, universe, notifier_failed, facade, probe, workflow, stream>>

\* A run of the task without the finally block of _execute_job: the handle
\* stays in the map when the task ends.
Commit_KeepsHandle(id, job, task, calls, ended) ==
    /\ jobs' = [jobs EXCEPT ![id] = job]
    /\ tasks' = [tasks EXCEPT ![id] = task]
    /\ notifier_calls' = [notifier_calls EXCEPT ![id] = @ \o calls]
    /\ active_tasks' = active_tasks
    /\ UNCHANGED <<job_order, spawned, last, ncalls, universe, job_lock, notifier_failed, facade, probe, workflow, stream>>

\* One run of the task of job `id`: the job and the task as the run leaves
\* them, the notifier calls it issued, and whether the task ended (the
\* finally block of _execute_job then drops the task handle).
Commit(id, job, task, calls, ended) ==
    /\ jobs' = [jobs EXCEPT ![id] = job]
    /\ tasks' = [tasks EXCEPT ![id] = task]
    /\ notifier_calls' = [notifier_calls EXCEPT ![id] = @ \o calls]
    /\ active_tasks' = IF ended THEN active_tasks \ {id} ELSE active_tasks
    /\ UNCHANGED <<job_order, spawned, last, ncalls, universe, job_lock, notifier_failed, facade, probe, workflow, stream>>

\* _notify_job_completion that updates the comment for a successful result
\* only.
notify_job_completion_SuccessOnly(id, job, handler) ==
    IF HasNotifier(job) /\ job.result # None /\ job.result[1].success
    THEN Commit(id, job,
                [tasks[id] EXCEPT !.pc = "notify_final", !.handler = handler],
                <<<<"final", job.status>>>>, FALSE)
    ELSE Commit(id, job, [tasks[id] EXCEPT !.pc = "done"], <<>>, TRUE)

\* _notify_job_completion awaited with the lock held: the task takes
\* _job_lock before it updates the comment.
notify_job_completion_HoldsLock(id, job, handler) ==
    IF HasNotifier(job)
    THEN /\ jobs' = [jobs EXCEPT ![id] = job]
         /\ tasks' = [tasks EXCEPT ![id] = [@ EXCEPT !.pc = "notify_final",
                                                     !.handler = handler]]
         /\ notifier_calls' = [notifier_calls EXCEPT ![id] = Append(@, <<"final", job.status>>)]
         /\ job_lock' = TRUE
         /\ UNCHANGED <<active_tasks, job_order, spawned, last, ncalls, universe,
                        notifier_failed, facade, probe, workflow, stream>>
    ELSE Commit(id, job, [tasks[id] EXCEPT !.pc = "done"], <<>>, TRUE)

\* await self._notify_job_completion(job), entered with the terminal job:
\* with a notifier the task suspends in the HTTP call, without one it goes on
\* to the end of _execute_job.  `handler` tells that the call is made from
\* the "except Exception" handler of _execute_job.
notify_job_completion(id, job, handler) ==
    IF HasNotifier(job)
    THEN Commit(id, job,
                [tasks[id] EXCEPT !.pc = "notify_final", !.handler = handler],
                <<<<"final", job.status>>>>, FALSE)
    ELSE Commit(id, job, [tasks[id] EXCEPT !.pc = "done"], <<>>, TRUE)

\* The for loop with _notify_job_progress awaited before update_progress: the
\* comment is updated with the progress of the step before.
execute_loop_NotifiesBeforeUpdate(id, job, i, t) ==
    LET steps == Steps(job.job_type) IN
    IF i < Len(steps)
    THEN IF job.status = CANCELLED
         THEN Commit(id, job, [tasks[id] EXCEPT !.pc = "done"], <<>>, TRUE)
         ELSE LET j == update_progress(job, steps[i + 1], i, Len(steps),
                                       "Executing", steps[i + 1])
              IN IF HasNotifier(j)
                 THEN Commit(id, j, [tasks[id] EXCEPT !.pc = "notify_progress", !.i = i],
                             <<<<"progress", job.progress[1].current_step>>>>, FALSE)
                 ELSE Commit(id, j, [tasks[id] EXCEPT !.pc = "sleep_step", !.i = i],
                             <<>>, FALSE)
    ELSE notify_job_completion(id, mark_completed(job, SuccessResult, t), FALSE)

\* The for loop reporting the steps that remain, len(steps) - i - 1, in the
\* place of the steps done.
execute_loop_Remaining(id, job, i, t) ==
    LET steps == Steps(job.job_type) IN
    IF i < Len(steps)
    THEN IF job.status = CANCELLED
         THEN Commit(id, job, [tasks[id] EXCEPT !.pc = "done"], <<>>, TRUE)
         ELSE LET j == update_progress(job, steps[i + 1], Len(steps) - i - 1, Len(steps),
                                       "Executing", steps[i + 1])
              IN IF HasNotifier(j)
                 THEN Commit(id, j, [tasks[id] EXCEPT !.pc = "notify_progress", !.i = i],
                             <<<<"progress", j.progress[1].current_step>>>>, FALSE)
                 ELSE Commit(id, j, [tasks[id] EXCEPT !.pc = "sleep_step", !.i = i],
                             <<>>, FALSE)
    ELSE notify_job_completion(id, mark_completed(job, SuccessResult, t), FALSE)

\* The for loop of _execute_train_job / _execute_eval_job / _execute_test_job
\* from iteration i up to the next suspension point.  update_progress is
\* called with 0 <= i < len(steps) and does not raise.
execute_loop(id, job, i, t) ==
    LET steps == Steps(job.job_type) IN
    IF i < Len(steps)
    THEN IF job.status = CANCELLED
         THEN Commit(id, job, [tasks[id] EXCEPT !.pc = "done"], <<>>, TRUE)
         ELSE LET j == update_progress(job, steps[i + 1], i, Len(steps),
                                       "Executing", steps[i + 1])
              IN IF HasNotifier(j)
                 THEN Commit(id, j, [tasks[id] EXCEPT !.pc = "notify_progress", !.i = i],
                             <<<<"progress", j.progress[1].current_step>>>>, FALSE)
                 ELSE Commit(id, j, [tasks[id] EXCEPT !.pc = "sleep_step", !.i = i],
                             <<>>, FALSE)
    ELSE notify_job_completion(id, mark_completed(job, SuccessResult, t), FALSE)

\* _execute_job whose "except Exception" handler logs the error and does not
\* call mark_completed.
execute_job_SwallowsError(id, t) ==
    /\ tasks[id].pc = "created"
    /\ ~tasks[id].must_cancel
    /\ LET job == add_log(jobs[id], "Starting job execution", jobs[id].job_type) IN
       IF job.job_type \in {TRAIN, EVAL, TEST}
       THEN Commit(id,
                   update_progress(job, InitStep(job.job_type), 0,
                                   Len(Steps(job.job_type)),
                                   InitMessage(job.job_type), ""),
                   [tasks[id] EXCEPT !.pc = "sleep_init"], <<>>, FALSE)
       ELSE IF job.job_type = PIPELINE
       THEN Commit(id,
                   update_progress(job, InitStep(job.job_type), 0, 1,
                                   InitMessage(job.job_type), ""),
                   [tasks[id] EXCEPT !.pc = "sleep_pipeline", !.i = 0], <<>>, FALSE)
       ELSE Commit(id,
                   add_log(job, "Job execution failed: Unknown job type", job.job_type),
                   [tasks[id] EXCEPT !.pc = "done"], <<>>, TRUE)

\* _execute_job from its first line to the first suspension point: the task
\* has been scheduled by create_task and runs for the first time.
execute_job(id, t) ==
    /\ tasks[id].pc = "created"
    /\ ~tasks[id].must_cancel
    /\ LET job == add_log(jobs[id], "Starting job execution", jobs[id].job_type) IN
       IF job.job_type \in {TRAIN, EVAL, TEST}
       THEN Commit(id,
                   update_progress(job, InitStep(job.job_type), 0,
                                   Len(Steps(job.job_type)),
                                   InitMessage(job.job_type), ""),
                   [tasks[id] EXCEPT !.pc = "sleep_init"], <<>>, FALSE)
       ELSE IF job.job_type = PIPELINE
       THEN Commit(id,
                   update_progress(job, InitStep(job.job_type), 0, 1,
                                   InitMessage(job.job_type), ""),
                   [tasks[id] EXCEPT !.pc = "sleep_pipeline", !.i = 0], <<>>, FALSE)
       ELSE \* raise ValueError("Unknown job type"), caught by "except Exception"
            LET msg == "Job execution failed: Unknown job type"
                failed == mark_completed(add_log(job, msg, job.job_type),
                                         FailureResult(msg), t)
            IN notify_job_completion(id, failed, TRUE)

\* The task of a looped job resumes after an asyncio.sleep.
resume_sleep(id, t) ==
    /\ tasks[id].pc \in {"sleep_init", "sleep_step"}
    /\ ~tasks[id].must_cancel
    /\ execute_loop(id, jobs[id],
                    IF tasks[id].pc = "sleep_init" THEN 0 ELSE tasks[id].i + 1, t)

\* _execute_pipeline_job resumes after one of its three sleeps.
resume_pipeline(id, t) ==
    /\ tasks[id].pc = "sleep_pipeline"
    /\ ~tasks[id].must_cancel
    /\ LET job == jobs[id] IN
       CASE tasks[id].i = 0 ->
              Commit(id, update_progress(job, "Training model", 1, 3,
                                         "Executing training step", ""),
                     [tasks[id] EXCEPT !.i = 1], <<>>, FALSE)
         [] tasks[id].i = 1 ->
              Commit(id, update_progress(job, "Evaluating model", 2, 3,
                                         "Executing evaluation step", ""),
                     [tasks[id] EXCEPT !.i = 2], <<>>, FALSE)
         [] OTHER ->
              notify_job_completion(id, mark_completed(job, SuccessResult, t), FALSE)

\* update_pr_comment comes back to _update_github_comment: with status 200,
\* with another status, or by raising; the two notify functions log and
\* swallow every one of these, and the task goes on.
NotifierOutcomes == {"ok", "bad_status", "raised"}

\* An error raised by update_pr_comment is not caught by the notify
\* functions: it reaches the "except Exception" handler of _execute_job, which
\* marks the job Failed and ends the task.
notify_returns_RaisedFailsJob(id, outcome) ==
    /\ tasks[id].pc \in {"notify_progress", "notify_final"}
    /\ ~tasks[id].must_cancel
    /\ outcome \in NotifierOutcomes
    /\ notifier_failed' = IF outcome = "ok" THEN notifier_failed
                          ELSE notifier_failed \cup {id}
    /\ IF outcome = "raised"
       THEN /\ jobs' = [jobs EXCEPT ![id] =
                           mark_completed(@, FailureResult("Job execution failed"), 0)]
            /\ tasks' = [tasks EXCEPT ![id].pc = "done"]
            /\ active_tasks' = active_tasks \ {id}
       ELSE /\ IF tasks[id].pc = "notify_progress"
               THEN /\ tasks' = [tasks EXCEPT ![id].pc = "sleep_step"]
                    /\ UNCHANGED active_tasks
               ELSE /\ tasks' = [tasks EXCEPT ![id].pc = "done"]
                    /\ active_tasks' = active_tasks \ {id}
            /\ UNCHANGED jobs
    /\ UNCHANGED <<job_order, spawned, notifier_calls, last, ncalls, universe, job_lock,
                   facade, probe, workflow, stream>>

notify_returns(id, outcome) ==
    /\ tasks[id].pc \in {"notify_progress", "notify_final"}
    /\ ~tasks[id].must_cancel
    /\ outcome \in NotifierOutcomes
    /\ notifier_failed' = IF outcome = "ok" THEN notifier_failed
                          ELSE notifier_failed \cup {id}
    /\ IF tasks[id].pc = "notify_progress"
       THEN /\ tasks' = [tasks EXCEPT ![id].pc = "sleep_step"]
            /\ UNCHANGED active_tasks
       ELSE /\ tasks' = [tasks EXCEPT ![id].pc = "done"]
            /\ active_tasks' = active_tasks \ {id}
    /\ UNCHANGED <<jobs, job_order, spawned, notifier_calls, last, ncalls, universe, job_lock,
                   facade, probe, workflow, stream>>

\* A task cancelled before its first run that still enters _execute_job and
\* its "except asyncio.CancelledError" handler, which logs to the job.
cancelled_before_start_RunsHandler(id) ==
    /\ tasks[id].pc = "created"
    /\ tasks[id].must_cancel
    /\ Commit(id, add_log(jobs[id], "Job execution cancelled", ""),
              [tasks[id] EXCEPT !.pc = "cancelled"], <<>>, TRUE)

\* Task.cancel() was called before the task ran for the first time: the event
\* loop throws CancelledError into the coroutine that has not started, so no
\* line of _execute_job runs (neither its handlers nor its finally block).
cancelled_before_start(id) ==
    /\ tasks[id].pc = "created"
    /\ tasks[id].must_cancel
    /\ Commit(id, jobs[id], [tasks[id] EXCEPT !.pc = "cancelled"], <<>>, FALSE)

\* The "except asyncio.CancelledError" handler awaiting
\* _notify_job_completion after its log line.
cancelled_error_NotifiesFinal(id) ==
    /\ tasks[id].pc \in {"sleep_init", "sleep_step", "sleep_pipeline",
                         "notify_progress", "notify_final"}
    /\ tasks[id].must_cancel
    /\ IF tasks[id].handler
       THEN Commit(id, jobs[id], [tasks[id] EXCEPT !.pc = "cancelled"], <<>>, TRUE)
       ELSE IF HasNotifier(jobs[id])
       THEN Commit(id, add_log(jobs[id], "Job execution cancelled", ""),
                   [tasks[id] EXCEPT !.pc = "notify_final", !.must_cancel = FALSE],
                   <<<<"final", jobs[id].status>>>>, FALSE)
       ELSE Commit(id, add_log(jobs[id], "Job execution cancelled", ""),
                   [tasks[id] EXCEPT !.pc = "done"], <<>>, TRUE)

\* CancelledError handled like any other error: the "except Exception"
\* handler marks the job Failed with a result.
cancelled_error_FailsJob(id) ==
    /\ tasks[id].pc \in {"sleep_init", "sleep_step", "sleep_pipeline",
                         "notify_progress", "notify_final"}
    /\ tasks[id].must_cancel
    /\ IF tasks[id].handler
       THEN Commit(id, jobs[id], [tasks[id] EXCEPT !.pc = "cancelled"], <<>>, TRUE)
       ELSE Commit(id, mark_completed(jobs[id], FailureResult("Job execution failed"),
                                      MaxTime),
                   [tasks[id] EXCEPT !.pc = "done"], <<>>, TRUE)

\* Task.cancel() was called while the task was suspended: the await raises
\* CancelledError.  In the try block of _execute_job it reaches
\* "except asyncio.CancelledError"; raised inside the "except Exception"
\* handler it leaves _execute_job through the finally block alone.
cancelled_error(id) ==
    /\ tasks[id].pc \in {"sleep_init", "sleep_step", "sleep_pipeline",
                         "notify_progress", "notify_final"}
    /\ tasks[id].must_cancel
    /\ IF tasks[id].handler
       THEN Commit(id, jobs[id], [tasks[id] EXCEPT !.pc = "cancelled"], <<>>, TRUE)
       ELSE Commit(id, add_log(jobs[id], "Job execution cancelled", ""),
                   [tasks[id] EXCEPT !.pc = "done"], <<>>, TRUE)

Next ==
    \/ \E id \in universe.ids, job_type \in universe.types,
          origin \in universe.origins, t \in Now :
          start_job(NewJob(id, job_type, origin[1], origin[2]), t)
    \/ \E id \in JobIds, reason \in Reasons, t \in Now : cancel_job(id, reason, t)
    \/ \E id \in JobIds, t \in Now : execute_job(id, t)
    \/ \E id \in JobIds, t \in Now : resume_sleep(id, t)
    \/ \E id \in JobIds, t \in Now : resume_pipeline(id, t)
    \/ \E id \in JobIds, outcome \in NotifierOutcomes : notify_returns(id, outcome)
    \/ \E id \in JobIds : cancelled_before_start(id)
    \/ \E id \in JobIds : cancelled_error(id)

Spec == Init /\ [][Next]_vars

\* One run of the task of job id.  The event loop runs every task that is
\* ready (a task just created, a task whose sleep has elapsed, whose HTTP call
\* has returned, or that has been cancelled) after finitely many other runs.
TaskStep(id) ==
    \/ \E t \in Now : execute_job(id, t)
    \/ \E t \in Now : resume_sleep(id, t)
    \/ \E t \in Now : resume_pipeline(id, t)
    \/ \E outcome \in NotifierOutcomes : notify_returns(id, outcome)
    \/ cancelled_before_start(id)
    \/ cancelled_error(id)

FairSpec == Spec /\ \A id \in JobIds : WF_vars(TaskStep(id))

\* ------------------------------------------------------------ the API layer
\* app/api/jobs.py answers from its module-level JobManager, managers[1].
\* Every request to app/api/commands.py and every webhook comment builds a
\* CommandProcessor, whose __init__ builds a JobManager of its own; the ones
\* that have started a job are managers[2], managers[3], ... (a manager that
\* started none is unreachable once its request is over).  Job ids are
\* uuid4 strings, here 1, 2, ...; the jobs stay as start_job left them: this
\* specification covers the requests made before the tasks run on.
CommandType == {"train", "eval", "test", "pipeline", "status", "help"}

\* ContextType of a comment, as detect_comment_context tells it, and the
\* command routing rules.
ContextType == {"issue", "pr"}

COMMAND_CONTEXT_RULES(command_type) ==
    CASE command_type \in {"train", "eval", "pipeline"} -> {"issue"}
      [] command_type = "test" -> {"pr"}
      [] command_type = "status" -> {"issue", "pr"}
      [] command_type = "help" -> {"issue", "pr", "repo"}
      [] OTHER -> {}

is_command_allowed_in_context(command_type, context_type) ==
    context_type \in COMMAND_CONTEXT_RULES(command_type)

\* JobManager(): the empty _jobs table of a new instance.
NewJobManager == <<>>

\* The ids of the jobs of a table that are pending or running.
ActiveIds(table) == {id \in DOMAIN table : table[id].status \in {PENDING, RUNNING}}

\* The job ids a status command can ask for (None: no --job option).
StatusArgs == {None} \cup {Some(id) : id \in 1..MaxRequests}

\* job_type_mapping.get(command_type, JobType.TRAIN)
job_type_mapping(command_type) ==
    IF command_type \in {TRAIN, EVAL, TEST, PIPELINE} THEN command_type ELSE TRAIN

\* A command text: whether it has leading whitespace, whether a '/' comes
\* next, the first token after it ("": none) and, for a status command, the
\* job id of its --job option.
CommandNames == CommandType \cup {"HELP", "invalid_command", ""}

CommandTexts ==
    {[ws |-> ws, slash |-> slash, name |-> name, job |-> job] :
        ws \in BOOLEAN, slash \in BOOLEAN, name \in CommandNames \ {"status"},
        job \in {None}}
    \cup {[ws |-> ws, slash |-> slash, name |-> "status", job |-> job] :
             ws \in BOOLEAN, slash \in BOOLEAN, job \in StatusArgs}

\* str.strip() and str.lower() on these texts and tokens.
strip(text) == [text EXCEPT !.ws = FALSE]
lower(name) == IF name = "HELP" THEN "help" ELSE name

\* text.startswith('/')
startswith_slash(text) == ~text.ws /\ text.slash

\* parse_command without the CommandType(command_name) lookup.
parse_command_NoTypeCheck(command_text) ==
    LET text == strip(command_text) IN
    IF ~startswith_slash(text) THEN None
    ELSE IF text.name = "" THEN None
    ELSE Some([command_type |-> lower(text.name), job_id |-> text.job])

\* CommandParser.parse_command(command_text): the CommandConfig, or None.
parse_command(command_text) ==
    LET text == strip(command_text) IN
    IF ~startswith_slash(text) THEN None
    ELSE IF text.name = "" THEN None
    ELSE LET command_name == lower(text.name) IN
         IF command_name \notin CommandType THEN None
         ELSE Some([command_type |-> command_name, job_id |-> text.job])

\* extract_slash_command(comment_body) for a comment of one line.
extract_slash_command(comment_body) ==
    IF startswith_slash(strip(comment_body)) THEN Some(strip(comment_body)) ELSE None

\* process_command without the status branch: a status command goes on to
\* _create_job_from_command, whose job_type_mapping defaults to TRAIN.
process_command_NoStatusBranch(op, command_text, github_context, github_comment_id) ==
    LET job_manager == NewJobManager
        command_config == parse_command(command_text)
        job_id == Len(managers)
        answer == [n |-> reply.n + 1, op |-> op, text |-> Some(command_text),
                   context_type |-> github_context,
                   job_id |-> 0, found |-> FALSE, listed |-> {}]
    IN
    /\ reply.n < MaxRequests
    /\ IF command_config = None
       THEN /\ reply' = [answer EXCEPT !.op = "invalid_command"]
            /\ UNCHANGED managers
       ELSE IF command_config[1].command_type = "help"
       THEN /\ reply' = [answer EXCEPT !.op = "help"]
            /\ UNCHANGED managers
       ELSE LET job == NewJob(job_id, job_type_mapping(command_config[1].command_type),
                              github_context # None, github_comment_id)
            IN /\ managers' = Append(managers,
                                     job_manager @@ (job_id :> mark_started(job, 0)))
               /\ reply' = [answer EXCEPT !.job_id = job_id, !.found = TRUE]
    /\ UNCHANGED <<engine, probe, workflow, stream>>

\* What a CommandProcessor does with a command text: a text that does not
\* parse is refused; help and status are answered from the processor's own
\* new JobManager; any other command builds a job with a new id and starts it
\* on that JobManager.  github_context is None for a manual command, else
\* the context_type of the GitHubContext.
process_command(op, command_text, github_context, github_comment_id) ==
    LET job_manager == NewJobManager
        command_config == parse_command(command_text)
        job_id == Len(managers)
        answer == [n |-> reply.n + 1, op |-> op, text |-> Some(command_text),
                   context_type |-> github_context,
                   job_id |-> 0, found |-> FALSE, listed |-> {}]
    IN
    /\ reply.n < MaxRequests
    /\ IF command_config = None
       THEN /\ reply' = [answer EXCEPT !.op = "invalid_command"]
            /\ UNCHANGED managers
       ELSE IF command_config[1].command_type = "help"
       THEN /\ reply' = [answer EXCEPT !.op = "help"]
            /\ UNCHANGED managers
       ELSE IF command_config[1].command_type = "status"
       THEN /\ reply' = IF command_config[1].job_id # None
                        THEN [answer EXCEPT
                                !.op = "status_command",
                                !.job_id = command_config[1].job_id[1],
                                !.found = command_config[1].job_id[1] \in DOMAIN job_manager]
                        ELSE [answer EXCEPT
                                !.op = "status_command_active",
                                !.listed = ActiveIds(job_manager)]
            /\ UNCHANGED managers
       ELSE LET job == NewJob(job_id, job_type_mapping(command_config[1].command_type),
                              github_context # None, github_comment_id)
            IN /\ managers' = Append(managers,
                                     job_manager @@ (job_id :> mark_started(job, 0)))
               /\ reply' = [answer EXCEPT !.job_id = job_id, !.found = TRUE]
    /\ UNCHANGED <<engine, probe, workflow, stream>>

\* POST /commands/execute: CommandProcessor().process_manual_command
execute_command(command_text) ==
    process_command("execute", command_text, None, FALSE)

\* A webhook comment made on an issue or on a pull request (context_type,
\* from detect_comment_context): a comment without slash command is
\* skipped; for any other, CommandProcessor().process_command_from_github
\* with a GitHubContext of that context_type, where the comment id is stored
\* when the initial comment was created (status 201).
process_comment(context_type, comment_body, created) ==
    IF extract_slash_command(comment_body) = None
    THEN /\ reply.n < MaxRequests
         /\ reply' = [n |-> reply.n + 1, op |-> "skipped", text |-> Some(comment_body),
                      context_type |-> Some(context_type),
                      job_id |-> 0, found |-> FALSE, listed |-> {}]
         /\ UNCHANGED <<engine, managers, probe, workflow, stream>>
    ELSE process_command("comment", extract_slash_command(comment_body)[1],
                         Some(context_type), created)

\* GET /jobs/{job_id}/status
get_job_status(job_id) ==
    /\ reply.n < MaxRequests
    /\ reply' = [n |-> reply.n + 1, op |-> "get_job_status", text |-> None,
                 context_type |-> None,
                 job_id |-> job_id,
                 found |-> job_id \in DOMAIN managers[1], listed |-> {}]
    /\ UNCHANGED <<engine, managers, probe, workflow, stream>>

\* GET /jobs/active
api_get_active_jobs ==
    /\ reply.n < MaxRequests
    /\ reply' = [n |-> reply.n + 1, op |-> "get_active_jobs", text |-> None,
                 context_type |-> None,
                 job_id |-> 0,
                 found |-> FALSE, listed |-> ActiveIds(managers[1])]
    /\ UNCHANGED <<engine, managers, probe, workflow, stream>>

NextFacade ==
    \/ \E command_text \in CommandTexts : execute_command(command_text)
    \/ \E context_type \in ContextType, comment_body \in CommandTexts,
          created \in BOOLEAN :
          process_comment(context_type, comment_body, created)
    \/ \E job_id \in 1..MaxRequests : get_job_status(job_id)
    \/ api_get_active_jobs

SpecFacade == Init /\ [][NextFacade]_vars

\* ------------------------------------------------------ the progress probe
\* job.update_progress(step, completed, total) called on a started job with
\* any two integers: the job as the call leaves it, and whether it raised.
call_update_progress(completed, total) ==
    /\ probe.n < MaxUpdates
    /\ probe' = [job |-> update_progress(probe.job, "step", completed, total, "", ""),
                 args |-> Some(<<completed, total>>),
                 raised |-> update_progress_raises(completed, total),
                 n |-> probe.n + 1]
    /\ UNCHANGED <<engine, facade, workflow, stream>>

NextProgress ==
    \E completed \in -1..MaxSteps, total \in -1..MaxSteps :
        call_update_progress(completed, total)

SpecProgress == Init /\ [][NextProgress]_vars

\* ------------------------------------------------ the mock workflow service
\* WorkflowStatus
QUEUED == "queued"
WorkflowStatus == {QUEUED, RUNNING, COMPLETED, FAILED, CANCELLED}

\* The keys of _create_workflow_definitions().
workflow_definitions == {"train_model", "evaluate_model", "model_comparison", "smoke_test"}

\* What submit_workflow is called with: every defined workflow and one that
\* has no definition, with or without callback_url; the inputs of a smoke
\* test ask for 10 test cases or for none.
Submissions ==
    {[workflow_id |-> w, inputs |-> [test_cases |-> 10], callback_url |-> c] :
        w \in workflow_definitions \cup {"unknown_workflow"}, c \in BOOLEAN}
    \cup {[workflow_id |-> "smoke_test", inputs |-> [test_cases |-> 0],
           callback_url |-> FALSE]}

\* The steps of the _simulate_*_workflow functions: <<step_name, target_progress>>.
TrainingWorkflowSteps ==
    <<<<"Preparing training environment", 10>>, <<"Loading training data", 15>>,
      <<"Initializing model", 20>>, <<"Training epoch 1-3", 50>>,
      <<"Training epoch 4-6", 70>>, <<"Training epoch 7-10", 85>>,
      <<"Validating model", 95>>, <<"Saving trained model", 100>>>>
EvaluationWorkflowSteps ==
    <<<<"Loading model", 20>>, <<"Loading test data", 40>>, <<"Running inference", 70>>,
      <<"Computing metrics", 90>>, <<"Generating report", 100>>>>
ComparisonWorkflowSteps ==
    <<<<"Loading baseline model", 15>>, <<"Loading candidate model", 30>>,
      <<"Loading test data", 45>>, <<"Running baseline evaluation", 65>>,
      <<"Running candidate evaluation", 85>>, <<"Comparing results", 100>>>>
SmokeTestWorkflowSteps ==
    <<<<"Loading model", 25>>, <<"Preparing test cases", 50>>,
      <<"Running smoke tests", 75>>, <<"Validating outputs", 100>>>>
GenericWorkflowSteps ==
    <<<<"Initializing", 20>>, <<"Processing", 50>>, <<"Analyzing", 80>>,
      <<"Finalizing", 100>>>>

WorkflowSteps(workflow_type) ==
    CASE workflow_type = "train_model" -> TrainingWorkflowSteps
      [] workflow_type = "evaluate_model" -> EvaluationWorkflowSteps
      [] workflow_type = "model_comparison" -> ComparisonWorkflowSteps
      [] workflow_type = "smoke_test" -> SmokeTestWorkflowSteps
      [] OTHER -> GenericWorkflowSteps

\* The outputs of a smoke test divide by test_cases: ZeroDivisionError when
\* the inputs ask for no test case.
outputs_raise(execution) ==
    execution.workflow_type = "smoke_test" /\ execution.inputs.test_cases = 0

\* MockWorkflowExecution(workflow_id, workflow_type, inputs).  The timestamps
\* are None or set; outputs tells whether the outputs were set.  `task` is
\* the task submit_workflow creates for the execution: where it is suspended,
\* the step of the loop it is in and whether it was given a callback_url.
MockWorkflowExecution(workflow_id, workflow_type, inputs, callback_url) ==
    [workflow_id |-> workflow_id,
     workflow_type |-> workflow_type,
     inputs |-> inputs,
     status |-> QUEUED,
     started_at |-> None,
     completed_at |-> None,
     outputs |-> FALSE,
     logs |-> <<>>,
     progress |-> 0,
     current_step |-> "Queued",
     error_message |-> None,
     task |-> [pc |-> "created", i |-> 0, callback_url |-> callback_url]]

execution_add_log(execution, message) ==
    [execution EXCEPT !.logs = Append(@, message)]

\* datetime.utcnow() where completed_at is written: every such write comes with
\* a new log line of the execution, so the number of lines the execution
\* holds tells one write from a later one.
now(execution) == Some(Len(execution.logs))

\* submit_workflow(workflow_id, inputs, callback_url): raises ValueError for
\* a workflow without definition; the execution id is a uuid4 string, here
\* the index of the new execution.
submit_workflow(workflow_id, inputs, callback_url) ==
    /\ wf_last.n < MaxWorkflowCalls
    /\ workflow_id \in workflow_definitions => Len(executions) < MaxExecutions
    /\ IF workflow_id \notin workflow_definitions
       THEN /\ wf_last' = [n |-> wf_last.n + 1, op |-> "submit_workflow",
                           workflow_id |-> workflow_id, execution_id |-> 0,
                           status |-> None, raised |-> TRUE, ret |-> FALSE]
            /\ UNCHANGED executions
       ELSE /\ executions' = Append(executions,
                                    MockWorkflowExecution(workflow_id, workflow_id,
                                                          inputs, callback_url))
            /\ wf_last' = [n |-> wf_last.n + 1, op |-> "submit_workflow",
                           workflow_id |-> workflow_id,
                           execution_id |-> Len(executions) + 1,
                           status |-> None, raised |-> FALSE, ret |-> FALSE]
    /\ UNCHANGED <<engine, facade, probe, stream>>

\* The call is past its asyncio.sleep: the task of an execution whose id the
\* caller holds was made ready by submit_workflow before the call began and
\* has run its first step while the call slept.
AfterSleep(execution_id) ==
    execution_id \in DOMAIN executions => executions[execution_id].task.pc # "created"

\* get_execution_status(execution_id), from the read of _executions that
\* follows its sleep: None for an unknown id, else the status of the
\* execution.
get_execution_status(execution_id) ==
    /\ wf_last.n < MaxWorkflowCalls
    /\ AfterSleep(execution_id)
    /\ wf_last' = [n |-> wf_last.n + 1, op |-> "get_execution_status",
                   workflow_id |-> "", execution_id |-> execution_id,
                   status |-> IF execution_id \in DOMAIN executions
                              THEN Some(executions[execution_id].status)
                              ELSE None,
                   raised |-> FALSE, ret |-> FALSE]
    /\ UNCHANGED <<executions, engine, facade, probe, stream>>

\* cancel_execution without the check of the status: any known execution is
\* marked cancelled.
cancel_execution_NoTerminalCheck(execution_id) ==
    /\ wf_last.n < MaxWorkflowCalls
    /\ AfterSleep(execution_id)
    /\ IF execution_id \notin DOMAIN executions
       THEN /\ wf_last' = [n |-> wf_last.n + 1, op |-> "cancel_execution",
                           workflow_id |-> "", execution_id |-> execution_id,
                           status |-> None, raised |-> FALSE, ret |-> FALSE]
            /\ UNCHANGED executions
       ELSE /\ executions' =
                  [executions EXCEPT ![execution_id] =
                      execution_add_log(
                          [@ EXCEPT !.status = CANCELLED,
                                    !.completed_at = now(executions[execution_id])],
                          "Workflow execution cancelled by user")]
            /\ wf_last' = [n |-> wf_last.n + 1, op |-> "cancel_execution",
                           workflow_id |-> "", execution_id |-> execution_id,
                           status |-> None, raised |-> FALSE, ret |-> TRUE]
    /\ UNCHANGED <<engine, facade, probe, stream>>

\* cancel_execution(execution_id), from the read of _executions that follows
\* its sleep: False for an unknown id and for a completed, failed or
\* cancelled execution; any other is marked cancelled.  The task of the
\* execution is not cancelled.
cancel_execution(execution_id) ==
    /\ wf_last.n < MaxWorkflowCalls
    /\ AfterSleep(execution_id)
    /\ IF \/ execution_id \notin DOMAIN executions
          \/ executions[execution_id].status \in {COMPLETED, FAILED, CANCELLED}
       THEN /\ wf_last' = [n |-> wf_last.n + 1, op |-> "cancel_execution",
                           workflow_id |-> "", execution_id |-> execution_id,
                           status |-> None, raised |-> FALSE, ret |-> FALSE]
            /\ UNCHANGED executions
       ELSE /\ executions' =
                  [executions EXCEPT ![execution_id] =
                      execution_add_log(
                          [@ EXCEPT !.status = CANCELLED,
                                    !.completed_at = now(executions[execution_id])],
                          "Workflow execution cancelled by user")]
            /\ wf_last' = [n |-> wf_last.n + 1, op |-> "cancel_execution",
                           workflow_id |-> "", execution_id |-> execution_id,
                           status |-> None, raised |-> FALSE, ret |-> TRUE]
    /\ UNCHANGED <<engine, facade, probe, stream>>

\* One run of the task of execution e leaves the execution as given.
SetExecution(e, execution) ==
    /\ executions' = [executions EXCEPT ![e] = execution]
    /\ UNCHANGED <<wf_last, engine, facade, probe, stream>>

\* _execute_workflow after the simulation has returned: the execution is
\* completed, and the callback sent if there is a callback_url.
complete_workflow(e, execution) ==
    SetExecution(e,
        execution_add_log(
            [execution EXCEPT !.status = COMPLETED,
                              !.completed_at = now(execution),
                              !.progress = 100,
                              !.current_step = "Completed",
                              !.task.pc = IF execution.task.callback_url
                                          THEN "send_callback" ELSE "done"],
            "Workflow execution completed successfully"))

\* The "except Exception" handler of _execute_workflow.
fail_workflow(e, execution, message) ==
    SetExecution(e,
        execution_add_log(
            [execution EXCEPT !.status = FAILED,
                              !.completed_at = now(execution),
                              !.error_message = Some(message),
                              !.task.pc = IF execution.task.callback_url
                                          THEN "send_callback" ELSE "done"],
            "Workflow execution failed"))

\* The for loop of a _simulate_*_workflow function from iteration i up to
\* the next suspension point, and what follows the loop.
simulate_workflow(e, execution, i) ==
    LET steps == WorkflowSteps(execution.workflow_type) IN
    IF i < Len(steps)
    THEN IF execution.status = CANCELLED
         THEN complete_workflow(e, execution)
         ELSE SetExecution(e,
                  execution_add_log(
                      [execution EXCEPT !.current_step = steps[i + 1][1],
                                        !.progress = steps[i + 1][2],
                                        !.task.pc = "sleep",
                                        !.task.i = i],
                      "Executing"))
    ELSE IF outputs_raise(execution)
         THEN fail_workflow(e, execution, "division by zero")
         ELSE complete_workflow(e, [execution EXCEPT !.outputs = TRUE])

\* _execute_workflow(execution, callback_url) from its start.
execute_workflow(e) ==
    /\ e \in DOMAIN executions
    /\ executions[e].task.pc = "created"
    /\ simulate_workflow(e,
           execution_add_log([executions[e] EXCEPT !.status = RUNNING,
                                                   !.started_at = Some(0)],
                             "Started workflow"),
           0)

\* The asyncio.sleep of a step returns.
resume_workflow_sleep(e) ==
    /\ e \in DOMAIN executions
    /\ executions[e].task.pc = "sleep"
    /\ simulate_workflow(e, executions[e], executions[e].task.i + 1)

\* _send_callback returns and the task ends.
send_callback_returns(e) ==
    /\ e \in DOMAIN executions
    /\ executions[e].task.pc = "send_callback"
    /\ SetExecution(e, [executions[e] EXCEPT !.task.pc = "done"])

NextWorkflow ==
    \/ \E s \in Submissions : submit_workflow(s.workflow_id, s.inputs, s.callback_url)
    \/ \E execution_id \in 1..MaxExecutions : get_execution_status(execution_id)
    \/ \E execution_id \in 1..MaxExecutions : cancel_execution(execution_id)
    \/ \E e \in 1..MaxExecutions : execute_workflow(e)
    \/ \E e \in 1..MaxExecutions : resume_workflow_sleep(e)
    \/ \E e \in 1..MaxExecutions : send_callback_returns(e)

SpecWorkflow == Init /\ [][NextWorkflow]_vars

\* ------------------------------------------------------------ the jobs API
\* The endpoints of app/api/jobs.py that take a job from the module's
\* JobManager, on a JobManager that jobs are started on: the callback of
\* external systems and the server-sent-events stream.  POST /{job_id}/cancel
\* is cancel_job.
Payloads == {"completed", "failed", "progress"}

\* handle_job_callback that takes a "completed" or "failed" payload as the
\* end of the job.
handle_job_callback_MarksCompleted(job_id, payload) ==
    /\ ncalls < MaxCalls
    /\ ncalls' = ncalls + 1
    /\ IF job_id \notin DOMAIN jobs
       THEN /\ last' = [op |-> "callback", id |-> job_id, reason |-> payload, ret |-> FALSE]
            /\ UNCHANGED jobs
       ELSE /\ jobs' = [jobs EXCEPT ![job_id] =
                           IF payload = "completed"
                           THEN mark_completed(@, SuccessResult, MaxTime)
                           ELSE IF payload = "failed"
                           THEN mark_completed(@, FailureResult("Job failed"), MaxTime)
                           ELSE add_log(@, "External callback received", payload)]
            /\ last' = [op |-> "callback", id |-> job_id, reason |-> payload, ret |-> TRUE]
    /\ UNCHANGED <<job_order, active_tasks, tasks, spawned, notifier_calls, universe,
                   job_lock, notifier_failed, facade, probe, workflow, stream>>

\* POST /callback/{job_id} with a payload whose status is "completed",
\* "failed" or anything else: 404 for an unknown job (ret FALSE), else one
\* line added to the log of the job.
handle_job_callback(job_id, payload) ==
    /\ ncalls < MaxCalls
    /\ ncalls' = ncalls + 1
    /\ IF job_id \notin DOMAIN jobs
       THEN /\ last' = [op |-> "callback", id |-> job_id, reason |-> payload, ret |-> FALSE]
            /\ UNCHANGED jobs
       ELSE /\ jobs' = [jobs EXCEPT ![job_id] =
                           add_log(@, "External callback received", payload)]
            /\ last' = [op |-> "callback", id |-> job_id, reason |-> payload, ret |-> TRUE]
    /\ UNCHANGED <<job_order, active_tasks, tasks, spawned, notifier_calls, universe,
                   job_lock, notifier_failed, facade, probe, workflow, stream>>

\* One run of the generator of the stream leaves the stream as given.
SetStream(s) ==
    /\ stream' = s
    /\ UNCHANGED <<engine, facade, probe, workflow>>

\* generate_updates() from the top of its loop to the yield: the update is
\* built from the job as it is now.
generate_updates(job_id) ==
    IF job_id \in DOMAIN jobs
    THEN SetStream([pc |-> "yield", job_id |-> job_id,
                    update |-> Some(jobs[job_id].status)])
    ELSE SetStream([pc |-> "yield_error", job_id |-> job_id,
                    update |-> Some("Job not found")])

\* GET /{job_id}/stream: the response starts to iterate the generator.
stream_job_updates(job_id) ==
    /\ stream.pc = "none"
    /\ generate_updates(job_id)

\* The generator resumes from its yield once the update has been sent: it
\* stops after the not-found message, and after an update when the status of
\* the job, read now, is completed, failed or cancelled; else it sleeps.
resume_yield ==
    /\ stream.pc \in {"yield", "yield_error"}
    /\ IF stream.pc = "yield_error"
       THEN SetStream([stream EXCEPT !.pc = "closed"])
       ELSE IF jobs[stream.job_id].status \in {COMPLETED, FAILED, CANCELLED}
       THEN SetStream([stream EXCEPT !.pc = "closed"])
       ELSE SetStream([stream EXCEPT !.pc = "sleep"])

\* The asyncio.sleep(2) of the generator returns.
resume_stream_sleep ==
    /\ stream.pc = "sleep"
    /\ generate_updates(stream.job_id)

\* The jobs the callers of the jobs API start: one id, a looped work
\* function, the pipeline or a type without work function, with or without
\* notifier.
ApiUniverse ==
    [ids |-> {"j1"}, types |-> {TEST, PIPELINE, MODEL_VALIDATION},
     origins |-> {<<FALSE, FALSE>>, <<TRUE, TRUE>>}]

InitJobsApi == InitFor(ApiUniverse)

NextJobsApi ==
    \/ Next
    \/ \E job_id \in JobIds, payload \in Payloads : handle_job_callback(job_id, payload)
    \/ \E job_id \in JobIds : stream_job_updates(job_id)
    \/ resume_yield
    \/ resume_stream_sleep

SpecJobsApi == InitJobsApi /\ [][NextJobsApi]_vars

\* ------------------------------------------------------------ the claims
Terminal == {COMPLETED, FAILED, CANCELLED}

\* The step is a cancel_job(id, ...) call / a start_job call for id.
CancelCall(id) == ncalls' = ncalls + 1 /\ last'.op = "cancel" /\ last'.id = id
StartCall(id) == ncalls' = ncalls + 1 /\ last'.op = "start" /\ last'.id = id

\* The step is a run of the task of job id.
TaskRun(id) == ncalls' = ncalls /\ tasks'[id] # tasks[id]

\* C1: cancel(id, reason) on a job whose status is Completed or Failed
\* returns true and leaves the job's status, result and completed_at as they
\* were before the call.
C1_CancelFinishedJobNoOp ==
    [][\A id \in DOMAIN jobs :
          (CancelCall(id) /\ jobs[id].status \in {COMPLETED, FAILED})
          => /\ last'.ret = TRUE
             /\ jobs'[id].status = jobs[id].status
             /\ jobs'[id].result = jobs[id].result
             /\ jobs'[id].completed_at = jobs[id].completed_at]_vars

\* C2: in every reachable state every job of the table has a result exactly
\* when its status is Completed or Failed; a Cancelled job has none.
C2_ResultIffCompletedOrFailed ==
    \A id \in DOMAIN jobs :
        (jobs[id].result # None) <=> (jobs[id].status \in {COMPLETED, FAILED})

\* C3: every change of a job's status is one of Pending->Running,
\* Running->Completed, Running->Failed, Running->Cancelled,
\* Pending->Cancelled.  A job enters the table in the start_job call that
\* takes it from Pending to Running.
Transitions ==
    {<<PENDING, RUNNING>>, <<RUNNING, COMPLETED>>, <<RUNNING, FAILED>>,
     <<RUNNING, CANCELLED>>, <<PENDING, CANCELLED>>}

C3_OnlyStateMachineTransitions ==
    [][\A id \in DOMAIN jobs' :
          IF id \in DOMAIN jobs
          THEN jobs'[id].status # jobs[id].status
               => <<jobs[id].status, jobs'[id].status>> \in Transitions
          ELSE jobs'[id].status = RUNNING]_vars

\* C4: completed_at is None while a job is Pending or Running and is set
\* whenever the job is Completed, Failed or Cancelled.
C4_CompletedAtIffTerminal ==
    \A id \in DOMAIN jobs :
        (jobs[id].completed_at # None) <=> (jobs[id].status \in Terminal)

\* C4 witness: a job cancelled after its task had reported progress, with
\* completed_at set and no result.
C4_Witness ==
    \E id \in DOMAIN jobs :
        /\ jobs[id].status = CANCELLED
        /\ jobs[id].completed_at # None
        /\ jobs[id].result = None
        /\ jobs[id].progress # None

\* C5: start(job) with an id already in the table returns false, spawns no
\* task and leaves the table, the stored job and the task map unchanged;
\* getActiveJobs never lists an id twice.
C5_DuplicateStartRefused ==
    /\ [](\A k1, k2 \in DOMAIN get_active_jobs :
             get_active_jobs[k1].job_id = get_active_jobs[k2].job_id => k1 = k2)
    /\ [][\A id \in DOMAIN jobs :
             StartCall(id)
             => /\ last'.ret = FALSE
                /\ UNCHANGED <<jobs, job_order, active_tasks, tasks, spawned>>]_vars

\* C5 witness: a start call was refused for a job that had already made
\* progress.
C5_Witness ==
    \E id \in DOMAIN jobs :
        /\ last = [op |-> "start", id |-> id, reason |-> "", ret |-> FALSE]
        /\ jobs[id].progress # None
        /\ spawned[id] = 1

\* C6: at most one task is ever spawned per job id, and a job is in the table
\* exactly when its task has been spawned (the check, the insert, the
\* Pending->Running transition and the spawn are one step).
C6_OneTaskPerJobId ==
    \A id \in JobIds :
        /\ spawned[id] <= 1
        /\ (spawned[id] = 1) <=> (id \in DOMAIN jobs)
        /\ id \in DOMAIN jobs => jobs[id].status # PENDING

\* C6 witness: a second start call for the same id arrived before the task
\* of the first had run, and one task exists.
C6_Witness ==
    \E id \in DOMAIN jobs :
        /\ last.op = "start" /\ last.id = id /\ ~last.ret
        /\ tasks[id].pc = "created"
        /\ ~tasks[id].must_cancel
        /\ spawned[id] = 1

\* C7: a job whose kind has no work function is never stored: start returns
\* false for it, so no job of the table has a job type that _execute_job does
\* not dispatch.
Dispatched == {TRAIN, EVAL, TEST, PIPELINE}

C7_UnregisteredKindNotStored ==
    \A id \in DOMAIN jobs : jobs[id].job_type \in Dispatched

\* C8: cancel(id, reason) returns false and changes neither the table nor the
\* task map when id is unknown, and returns true on every call for an id of
\* the table; a cancel call that follows a cancel call on the same id
\* returns what that one returned.
C8_CancelReturnValue ==
    [][\A id \in JobIds :
          CancelCall(id)
          => /\ IF id \in DOMAIN jobs
                THEN last'.ret = TRUE
                ELSE /\ last'.ret = FALSE
                     /\ UNCHANGED <<jobs, job_order, active_tasks, tasks>>
             /\ (last.op = "cancel" /\ last.id = id) => last'.ret = last.ret]_vars

CancelEntries(job) ==
    Cardinality({k \in DOMAIN job.logs : job.logs[k][1] = "Job cancelled"})

\* C8 witness: the second of two cancel calls on a known id returned true.
C8_Witness ==
    \E id \in DOMAIN jobs :
        /\ last.op = "cancel" /\ last.id = id /\ last.ret
        /\ CancelEntries(jobs[id]) = 2

\* C9: a second cancel of a job leaves its status, completed_at and log as
\* the first cancel left them.
C9_SecondCancelChangesNothing ==
    [][\A id \in DOMAIN jobs :
          (CancelCall(id) /\ jobs[id].status = CANCELLED)
          => /\ jobs'[id].status = CANCELLED
             /\ jobs'[id].completed_at = jobs[id].completed_at
             /\ jobs'[id].logs = jobs[id].logs]_vars

\* C10: cancel(id, reason) with a reason, called right after start returned
\* true (the task has not run yet), leaves the job Cancelled without result
\* and with the reason in its log; and no run of the task of a job that is
\* Cancelled without result changes its status or result or takes an entry
\* out of its log.
C10_CancelRightAfterStart ==
    [][\A id \in DOMAIN jobs :
          /\ ( /\ last = [op |-> "start", id |-> id, reason |-> "", ret |-> TRUE]
               /\ tasks[id].pc = "created"
               /\ CancelCall(id)
               /\ last'.reason # "" )
             => /\ last'.ret = TRUE
                /\ jobs'[id].status = CANCELLED
                /\ jobs'[id].result = None
                /\ \E k \in DOMAIN jobs'[id].logs :
                      jobs'[id].logs[k] = <<"Job cancelled", last'.reason>>
          /\ ( /\ TaskRun(id)
               /\ jobs[id].status = CANCELLED
               /\ jobs[id].result = None )
             => /\ jobs'[id].status = CANCELLED
                /\ jobs'[id].result = None
                /\ Len(jobs'[id].logs) >= Len(jobs[id].logs)
                /\ SubSeq(jobs'[id].logs, 1, Len(jobs[id].logs)) = jobs[id].logs]_vars

\* C10 witness: start and then cancel with a reason were the only two calls,
\* and the task has ended since without running a line.
C10_Witness ==
    \E id \in DOMAIN jobs :
        /\ ncalls = 2
        /\ last = [op |-> "cancel", id |-> id, reason |-> "user requested", ret |-> TRUE]
        /\ tasks[id].pc = "cancelled"
        /\ ~tasks[id].handler
        /\ jobs[id].status = CANCELLED
        /\ jobs[id].result = None
        /\ jobs[id].progress = None
        /\ jobs[id].logs[Len(jobs[id].logs)] = <<"Job cancelled", "user requested">>

\* C11: when the work of a Running job raises an unexpected error (the
\* dispatch of _execute_job raises ValueError for a job type without work
\* function), that run of the task leaves the job Failed, with a result whose
\* success is false and whose error_message is not empty, completed_at set
\* and the error text appended to the log; and a job of such a type is
\* never Running once its task has run.
C11_RaisedErrorFailsJob ==
    /\ [][\A id \in DOMAIN jobs :
             ( /\ TaskRun(id)
               /\ tasks[id].pc = "created"
               /\ jobs[id].status = RUNNING
               /\ jobs[id].job_type \notin Dispatched )
             => /\ jobs'[id].status = FAILED
                /\ jobs'[id].result # None
                /\ jobs'[id].result[1].success = FALSE
                /\ jobs'[id].result[1].error_message # ""
                /\ jobs'[id].completed_at # None
                /\ \E k \in DOMAIN jobs'[id].logs :
                      /\ k > Len(jobs[id].logs)
                      /\ jobs'[id].logs[k][1] = jobs'[id].result[1].error_message]_vars
    /\ [](\A id \in DOMAIN jobs :
             (jobs[id].job_type \notin Dispatched /\ tasks[id].pc # "created")
             => jobs[id].status # RUNNING)

\* C11 witness: a job of an undispatched type is Failed with its failure
\* result, its task has ended, and nobody cancelled it.
C11_Witness ==
    \E id \in DOMAIN jobs :
        /\ jobs[id].job_type \notin Dispatched
        /\ jobs[id].status = FAILED
        /\ jobs[id].result = Some(FailureResult("Job execution failed: Unknown job type"))
        /\ jobs[id].completed_at # None
        /\ tasks[id].pc = "done"
        /\ CancelEntries(jobs[id]) = 0

\* C12: for a job without GitHub context or without comment id, no call of
\* update_pr_comment (progress or final) is ever issued, whatever the job
\* goes through.
C12_NoNotifierWithoutHandle ==
    \A id \in DOMAIN jobs :
        (~jobs[id].github_context \/ ~jobs[id].github_comment_id)
        => notifier_calls[id] = <<>>

\* C12 witness: a job with a GitHub context and no comment id has run to
\* Completed, its task has ended and no call was issued for it.
C12_Witness ==
    \E id \in DOMAIN jobs :
        /\ jobs[id].github_context
        /\ ~jobs[id].github_comment_id
        /\ jobs[id].status = COMPLETED
        /\ tasks[id].pc = "done"
        /\ notifier_calls[id] = <<>>

\* C13: a failed update_pr_comment call (an error raised, or a status other
\* than 200), at a progress checkpoint or at the final one, changes nothing
\* of the job and does not end its task early: the task goes on to the sleep
\* of the step, or ends after the final call, as after a successful call; and
\* a looped job whose task has ended and that nobody cancelled is Completed
\* with a result, whether notifications failed or not.
C13_NotifierFailureHarmless ==
    /\ [][\A id \in DOMAIN jobs :
             ( /\ TaskRun(id)
               /\ tasks[id].pc \in {"notify_progress", "notify_final"}
               /\ ~tasks[id].must_cancel )
             => /\ jobs'[id] = jobs[id]
                /\ tasks'[id].pc = IF tasks[id].pc = "notify_progress"
                                   THEN "sleep_step" ELSE "done"]_vars
    /\ [](\A id \in DOMAIN jobs :
             ( /\ id \in notifier_failed
               /\ tasks[id].pc = "done"
               /\ CancelEntries(jobs[id]) = 0 )
             => /\ jobs[id].status = IF jobs[id].job_type \in Dispatched
                                     THEN COMPLETED ELSE FAILED
                /\ jobs[id].result # None)

\* C13 witness: a test job has run to Completed although a notification
\* failed on its way; all three progress calls and the final call were made.
C13_Witness ==
    \E id \in DOMAIN jobs :
        /\ id \in notifier_failed
        /\ jobs[id].job_type = TEST
        /\ jobs[id].status = COMPLETED
        /\ jobs[id].result = Some(SuccessResult)
        /\ tasks[id].pc = "done"
        /\ Len(notifier_calls[id]) = Len(TestSteps) + 1

\* C14: with every task scheduled fairly and every notifier call returning,
\* each job that start_job stored is eventually Completed, Failed or
\* Cancelled; a job never leaves the table; and a Completed or Failed job has
\* a result, a Cancelled job a "Job cancelled" line in its log.
C14_EveryJobEndsTerminal ==
    /\ \A id \in JobIds :
          (id \in DOMAIN jobs) ~> (id \in DOMAIN jobs /\ jobs[id].status \in Terminal)
    /\ [][DOMAIN jobs \subseteq DOMAIN jobs']_vars
    /\ [](\A id \in DOMAIN jobs :
             /\ jobs[id].status \in {COMPLETED, FAILED} => jobs[id].result # None
             /\ jobs[id].status = CANCELLED => CancelEntries(jobs[id]) >= 1)

\* C14 witness: a pipeline job has run to Completed with its result and its
\* task has ended, without any cancel call.
C14_Witness ==
    \E id \in DOMAIN jobs :
        /\ jobs[id].job_type = PIPELINE
        /\ jobs[id].status = COMPLETED
        /\ jobs[id].result # None
        /\ tasks[id].pc = "done"
        /\ id \notin active_tasks
        /\ CancelEntries(jobs[id]) = 0

\* C15: once a job has a progress value it keeps having one, and no step of
\* the engine (a run of a train, eval, test or pipeline task, a start_job or
\* cancel_job call) lowers its completed_steps.
C15_CompletedStepsNeverDecrease ==
    [][\A id \in DOMAIN jobs :
          jobs[id].progress # None
          => /\ jobs'[id].progress # None
             /\ jobs'[id].progress[1].completed_steps
                   >= jobs[id].progress[1].completed_steps]_vars

\* C15 witness: a train job has reported its last step (completed_steps went
\* 0, 0, 1, 2, 3, 4) and was cancelled after that.
C15_Witness ==
    \E id \in DOMAIN jobs :
        /\ jobs[id].job_type = TRAIN
        /\ jobs[id].progress # None
        /\ jobs[id].progress[1].current_step = "Saving results"
        /\ jobs[id].progress[1].completed_steps = 4
        /\ jobs[id].status = CANCELLED

\* C16: a progress value stored by update_progress has a percentage from 0
\* to 100 (0 to 1000 tenths), and 0 when its total_steps is 0; a call with
\* total = 0 does not raise and stores its arguments with percentage 0.
C16_PercentageInRange ==
    /\ probe.job.progress # None
       => /\ 0 <= probe.job.progress[1].progress_percentage
          /\ probe.job.progress[1].progress_percentage <= 1000
          /\ probe.job.progress[1].total_steps = 0
             => probe.job.progress[1].progress_percentage = 0
    /\ (probe.args # None /\ probe.args[1][2] = 0)
       => /\ ~probe.raised
          /\ probe.job.progress # None
          /\ probe.job.progress[1].completed_steps = probe.args[1][1]
          /\ probe.job.progress[1].total_steps = 0
          /\ probe.job.progress[1].progress_percentage = 0

\* C16 witness: update_progress was called with completed = 2 and total = 0
\* after a call that had stored 1 of 3, and stored 2 of 0 at 0 percent.
C16_Witness ==
    /\ probe.n = 2
    /\ probe.args = Some(<<2, 0>>)
    /\ ~probe.raised
    /\ probe.job.progress # None
    /\ probe.job.progress[1].completed_steps = 2
    /\ probe.job.progress[1].total_steps = 0
    /\ probe.job.progress[1].progress_percentage = 0

\* C17: a job whose work function has N steps and that has run to the end
\* is Completed with a result and shows the last of the counts 1, 2, ..., N:
\* completed_steps = N of total_steps = N, at 100 percent.
C17_StepsCountOneToN ==
    \A id \in DOMAIN jobs :
        (jobs[id].job_type \in {TRAIN, EVAL, TEST} /\ jobs[id].status = COMPLETED)
        => /\ jobs[id].result # None
           /\ jobs[id].progress # None
           /\ jobs[id].progress[1].total_steps = Len(Steps(jobs[id].job_type))
           /\ jobs[id].progress[1].completed_steps = Len(Steps(jobs[id].job_type))
           /\ jobs[id].progress[1].progress_percentage = 1000

\* C18: every job of the table has a started_at; it is written by the
\* start_job call that returns true and puts the job in the table, and no
\* later step (a run of the task, a cancel_job call, a refused start_job call)
\* changes it.
C18_StartedAtWrittenOnce ==
    /\ [](\A id \in DOMAIN jobs : jobs[id].started_at # None)
    /\ [][\A id \in DOMAIN jobs' :
             IF id \in DOMAIN jobs
             THEN jobs'[id].started_at = jobs[id].started_at
             ELSE StartCall(id) /\ last'.ret /\ jobs'[id].status = RUNNING]_vars

\* C18 witness: a job started at time 0 was cancelled at time 1, a second
\* start_job call for its id was then refused, and started_at is still 0.
C18_Witness ==
    \E id \in DOMAIN jobs :
        /\ last = [op |-> "start", id |-> id, reason |-> "", ret |-> FALSE]
        /\ jobs[id].status = CANCELLED
        /\ jobs[id].started_at = Some(0)
        /\ jobs[id].completed_at = Some(1)

\* The jobs the command dispatcher has started, on any JobManager.
DispatchedJobs ==
    UNION {{managers[k][id] : id \in DOMAIN managers[k]} : k \in DOMAIN managers}

\* C19: a job started by the command dispatcher is seen by the status
\* queries: once the dispatcher has returned its id, GET /jobs/{id}/status
\* and a status command for that id find the job, and GET /jobs/active and a
\* status command without id list it while it is Running.

C19_DispatchedJobVisible ==
    \A job \in DispatchedJobs :
        /\ (reply.op \in {"get_job_status", "status_command"}
            /\ reply.job_id = job.job_id) => reply.found
        /\ (reply.op \in {"get_active_jobs", "status_command_active"}
            /\ job.status = RUNNING) => job.job_id \in reply.listed

\* The ids of the jobs get_active_jobs returns.
ListedIds == {get_active_jobs[k].job_id : k \in DOMAIN get_active_jobs}

\* C20: get_active_jobs returns the jobs of the table that are Pending or
\* Running, each once and as stored, and no other: a job is listed in the
\* state a start_job call that returned true leaves, and not listed when it
\* is Completed, Failed or Cancelled; get_job returns None for an id no
\* start_job call has stored, and the stored job otherwise.
C20_ActiveJobsExactlyNonTerminal ==
    /\ [](/\ ListedIds = {id \in DOMAIN jobs : jobs[id].status \notin Terminal}
          /\ Cardinality(ListedIds) = Len(get_active_jobs)
          /\ \A k \in DOMAIN get_active_jobs :
                get_active_jobs[k] = jobs[get_active_jobs[k].job_id]
          /\ \A id \in JobIds :
                get_job(id) = IF spawned[id] = 0 THEN None ELSE Some(jobs[id]))
    /\ [][\A id \in JobIds :
             (StartCall(id) /\ last'.ret) => id \in ListedIds']_vars

\* C20 witness: of two stored jobs the first is Cancelled and the second
\* Running; get_active_jobs returns the second alone, and get_job still
\* returns the first.
C20_Witness ==
    /\ job_order = <<"j1", "j2">>
    /\ jobs["j1"].status = CANCELLED
    /\ jobs["j2"].status = RUNNING
    /\ ListedIds = {"j2"}
    /\ get_job("j1") = Some(jobs["j1"])

\* C21: the update_pr_comment calls of one job are issued in the order of its
\* progress updates: the k-th call is the progress call of step k, a final
\* call is the last call, a call is issued only when the call before it has
\* returned, and a call issued stays where it is in the order.
C21_NotifierCallsInStepOrder ==
    /\ [](\A id \in DOMAIN jobs :
             \A k \in DOMAIN notifier_calls[id] :
                IF notifier_calls[id][k][1] = "progress"
                THEN /\ k <= Len(Steps(jobs[id].job_type))
                     /\ notifier_calls[id][k][2] = Steps(jobs[id].job_type)[k]
                ELSE k = Len(notifier_calls[id]))
    /\ [][\A id \in JobIds :
             notifier_calls'[id] # notifier_calls[id]
             => /\ tasks[id].pc \notin {"notify_progress", "notify_final"}
                /\ Len(notifier_calls'[id]) = Len(notifier_calls[id]) + 1
                /\ SubSeq(notifier_calls'[id], 1, Len(notifier_calls[id]))
                      = notifier_calls[id]]_vars

\* C21 witness: the three progress calls of a test job and then its final
\* call have been issued, and the final call has returned.
C21_Witness ==
    \E id \in DOMAIN jobs :
        /\ notifier_calls[id] = <<<<"progress", TestSteps[1]>>, <<"progress", TestSteps[2]>>,
                                  <<"progress", TestSteps[3]>>, <<"final", COMPLETED>>>>
        /\ tasks[id].pc = "done"

\* The final update_pr_comment calls issued for a job.
FinalCalls(id) ==
    {k \in DOMAIN notifier_calls[id] : notifier_calls[id][k][1] = "final"}

\* C22: a job with GitHub context and comment id has exactly one final
\* update_pr_comment call once a result has been stored for it (it has been
\* Completed or Failed, by the return of its work function or by a raised
\* error) and none before; the call is issued with the terminal status and
\* the result already stored, in the run of the task that stores them.
C22_OneFinalCallAfterResult ==
    /\ [](\A id \in DOMAIN jobs :
             HasNotifier(jobs[id])
             => /\ Cardinality(FinalCalls(id)) = IF jobs[id].result # None THEN 1 ELSE 0
                /\ \A k \in FinalCalls(id) :
                      notifier_calls[id][k][2] =
                          IF jobs[id].result[1].success THEN COMPLETED ELSE FAILED)
    /\ [][\A id \in DOMAIN jobs :
             (HasNotifier(jobs[id]) /\ FinalCalls(id) = {} /\ FinalCalls(id)' # {})
             => /\ TaskRun(id)
                /\ jobs[id].result = None
                /\ jobs'[id].result # None
                /\ jobs'[id].status \in {COMPLETED, FAILED}
                /\ jobs'[id].completed_at # None]_vars

\* C22 witness: a job of an undispatched type with GitHub context and comment
\* id is Failed by the raised error, and its one call is the final call, which
\* has returned.
C22_Witness ==
    \E id \in DOMAIN jobs :
        /\ HasNotifier(jobs[id])
        /\ jobs[id].status = FAILED
        /\ jobs[id].result # None
        /\ notifier_calls[id] = <<<<"final", FAILED>>>>
        /\ tasks[id].pc = "done"

\* The job was cancelled before mark_completed was ever called on it: its log
\* has a "Job cancelled" line with no "Job completed" line before it.
CancelledWhileRunning(job) ==
    \E k \in DOMAIN job.logs :
        /\ job.logs[k][1] = "Job cancelled"
        /\ \A m \in 1..k : job.logs[m][1] # "Job completed with status"

\* C23: a job cancelled while Running, before its work function has
\* returned, never has a final update_pr_comment call: not in the cancel_job
\* call, not in the run of the task that handles the cancellation, not later.
C23_NoFinalCallAfterCancel ==
    \A id \in DOMAIN jobs :
        CancelledWhileRunning(jobs[id]) => FinalCalls(id) = {}

\* C23 witness: a job with GitHub context and comment id was cancelled while
\* its second progress call was in flight; its task has handled the
\* cancellation and ended, and the two progress calls are all its calls.
C23_Witness ==
    \E id \in DOMAIN jobs :
        /\ HasNotifier(jobs[id])
        /\ CancelledWhileRunning(jobs[id])
        /\ jobs[id].status = CANCELLED
        /\ jobs[id].logs[Len(jobs[id].logs)] = <<"Job execution cancelled", "">>
        /\ tasks[id].pc = "done"
        /\ tasks[id].i = 1
        /\ Len(notifier_calls[id]) = 2

\* The step answers a request that carried a command text.
CommandStep == reply'.n = reply.n + 1 /\ reply'.text # None

\* C24 as written: a command text that does not start with '/' or whose
\* command name is not a known command type is refused, and no job is created
\* or started for it.
C24_InvalidCommandRejected ==
    [][(/\ CommandStep
        /\ \/ reply'.text[1].ws
           \/ ~reply'.text[1].slash
           \/ reply'.text[1].name \notin (CommandType \cup {"HELP"}))
       => /\ parse_command(reply'.text[1]) = None
          /\ reply'.op \in {"invalid_command", "skipped"}
          /\ managers' = managers]_vars

\* C24, amended: a command text that, leading whitespace apart, does not
\* start with '/', or whose command name is not a known command type in
\* lower or upper case, is refused: parse_command returns None for it, and no
\* job is created or started for it.
C24_InvalidCommandRejectedAfterStrip ==
    [][(/\ CommandStep
        /\ \/ ~reply'.text[1].slash
           \/ reply'.text[1].name \notin (CommandType \cup {"HELP"}))
       => /\ parse_command(reply'.text[1]) = None
          /\ reply'.op \in {"invalid_command", "skipped"}
          /\ managers' = managers]_vars

\* C24 witness: after a job had been started, "/invalid_command" sent to the
\* command API was refused, and the one job is all there is.
C24_Witness ==
    /\ reply.op = "invalid_command"
    /\ reply.text = Some([ws |-> FALSE, slash |-> TRUE, name |-> "invalid_command",
                          job |-> None])
    /\ Len(managers) = 2
    /\ DispatchedJobs # {}

\* The command of the request parses to a help or status command.
HelpOrStatus(text) ==
    /\ parse_command(text) # None
    /\ parse_command(text)[1].command_type \in {"help", "status"}

\* C25: a HELP or STATUS command, from the manual API or from a GitHub
\* comment, is answered without creating a job: no job table gains a job, and
\* the engine's job table and running-task map are the same before and after
\* the command is processed.
C25_HelpStatusCreateNoJob ==
    [][(CommandStep /\ reply'.op # "skipped" /\ HelpOrStatus(reply'.text[1]))
       => /\ managers' = managers
          /\ UNCHANGED <<jobs, job_order, active_tasks, tasks, spawned>>
          /\ reply'.op \in {"help", "status_command", "status_command_active"}]_vars

\* C25 witness: a status command for job 1 was answered after job 1 had been
\* dispatched, and the dispatched job is still the only one.
C25_Witness ==
    /\ reply.op = "status_command"
    /\ reply.text # None
    /\ reply.text[1].name = "status"
    /\ reply.job_id = 1
    /\ reply.n = 2
    /\ Len(managers) = 2

\* The step is a call of the MockWorkflowService.
WorkflowCall(op) == wf_last'.n = wf_last.n + 1 /\ wf_last'.op = op

\* C26: submit_workflow with a workflow id that has no definition raises and
\* records no execution; with a defined workflow id it records exactly one
\* new execution, queued; the status get_execution_status reads is queued or
\* running until the execution finishes and only then a terminal status: an
\* execution whose task has ended is completed, failed or cancelled, and a
\* completed, failed or cancelled status is never followed by another one.
C26_SubmitAndStatusOfExecution ==
    [][/\ WorkflowCall("submit_workflow")
          => IF wf_last'.workflow_id \notin workflow_definitions
             THEN wf_last'.raised /\ executions' = executions
             ELSE /\ ~wf_last'.raised
                  /\ Len(executions') = Len(executions) + 1
                  /\ SubSeq(executions', 1, Len(executions)) = executions
                  /\ executions'[wf_last'.execution_id].status = QUEUED
       /\ \A e \in DOMAIN executions :
             /\ executions'[e].task.pc = "done"
                => executions'[e].status \in {COMPLETED, FAILED, CANCELLED}
             /\ executions[e].status \in {COMPLETED, FAILED, CANCELLED}
                => executions'[e].status = executions[e].status]_vars

\* C27: the running-task map holds a handle for a job id only while that job
\* is Running: in every reachable state no job whose status is Completed,
\* Failed or Cancelled has an entry in the running-task map, and every key of
\* the map is the id of a job in the table.
C27_HandleOnlyWhileRunning ==
    \A id \in active_tasks :
        /\ id \in DOMAIN jobs
        /\ jobs[id].status \notin Terminal

\* The task created for job id has ended: it returned, or it was cancelled
\* before it ever ran.
TaskEnded(id) == tasks[id].pc \in {"done", "cancelled"}

\* C28: whatever the outcome of a job's task (normal return, raised error,
\* cancellation, or cancellation before the task ever ran), once the task has
\* ended the running-task map contains no handle for that job id, and it
\* contains none as soon as cancel has returned true.
C28_NoHandleOnceTaskEnded ==
    /\ [](\A id \in JobIds : TaskEnded(id) => id \notin active_tasks)
    /\ [][\A id \in JobIds :
             (CancelCall(id) /\ last'.ret) => id \notin active_tasks']_vars

\* C28 witness: the task of one job ended after an error was raised, the task
\* of another was cancelled before it ever ran, and the map is empty.
C28_Witness ==
    \E id1, id2 \in DOMAIN jobs :
        /\ tasks[id1].pc = "done"
        /\ jobs[id1].status = FAILED
        /\ tasks[id2].pc = "cancelled"
        /\ jobs[id2].progress = None
        /\ last = [op |-> "cancel", id |-> id2, reason |-> "", ret |-> TRUE]
        /\ active_tasks = {}

\* A Notifier call is in flight: some task is suspended in update_pr_comment.
NotifierInFlight ==
    \E id \in JobIds : tasks[id].pc \in {"notify_progress", "notify_final"}

\* C29: the job-table lock is never held while a Notifier call is in flight:
\* start and cancel release the lock without suspending inside it, and every
\* progress or final notification is awaited by the job's task with the lock
\* free, so that while a notifier call is in flight a start or cancel call of
\* any job can run.
C29_LockFreeWhileNotifying ==
    /\ ~job_lock
    /\ (NotifierInFlight /\ ncalls < MaxCalls)
       => /\ \A id \in JobIds : ENABLED cancel_job(id, "", MaxTime)
          /\ \A id \in universe.ids :
                ENABLED start_job(NewJob(id, TEST, FALSE, FALSE), MaxTime)

\* C29 witness: while the task of one job is suspended in a progress
\* notification, another job has been started and cancelled.
C29_Witness ==
    \E id1, id2 \in DOMAIN jobs :
        /\ id1 # id2
        /\ tasks[id1].pc = "notify_progress"
        /\ jobs[id1].progress # None
        /\ jobs[id1].progress[1].completed_steps = 1
        /\ last = [op |-> "cancel", id |-> id2, reason |-> "", ret |-> TRUE]
        /\ ~job_lock

\* cancel(id) has completed and the task spawned for id has not executed its
\* first step, or has ended without executing one.
CancelledBeforeFirstStep(id) ==
    /\ id \in DOMAIN jobs
    /\ jobs[id].status = CANCELLED
    /\ tasks[id].pc \in {"created", "cancelled"}
    /\ ~tasks[id].handler

\* C30: if cancel(id) completes before the job's spawned task has executed
\* its first step, the task makes no mutation of the job when it is
\* scheduled: no progress update, no status or result change and no Notifier
\* call; the job stays Cancelled with progress null.
C30_CancelledBeforeFirstStepNoMutation ==
    [][\A id \in JobIds :
          /\ (CancelledBeforeFirstStep(id) /\ TaskRun(id))
             => /\ jobs'[id] = jobs[id]
                /\ notifier_calls'[id] = notifier_calls[id]
                /\ tasks'[id].pc = "cancelled"
          /\ CancelledBeforeFirstStep(id)
             => /\ CancelledBeforeFirstStep(id)'
                /\ jobs'[id].progress = None
                /\ jobs'[id].result = None
                /\ notifier_calls'[id] = <<>>]_vars

\* C30 witness: a job with a notifier was cancelled before its task ran, the
\* task has been scheduled since and has ended, and the job shows no
\* progress, no result, no notifier call and no line of _execute_job.
C30_Witness ==
    \E id \in DOMAIN jobs :
        /\ HasNotifier(jobs[id])
        /\ tasks[id].pc = "cancelled"
        /\ ~tasks[id].handler
        /\ jobs[id].status = CANCELLED
        /\ jobs[id].progress = None
        /\ notifier_calls[id] = <<>>
        /\ \A k \in DOMAIN jobs[id].logs : jobs[id].logs[k][1] # "Starting job execution"

\* The positions of the progress calls in a sequence of notifier calls.
ProgressCalls(calls) ==
    {k \in DOMAIN calls : calls[k][1] = "progress"}

\* C31: after cancel(id) has returned true for a Running job, the job's task
\* never again updates that job's progress and no new Notifier progress call
\* is started for it, for every work function and at whichever suspension
\* point the task was when cancel ran.
C31_NoProgressAfterCancel ==
    [][\A id \in DOMAIN jobs :
          CancelledWhileRunning(jobs[id])
          => /\ jobs'[id].progress = jobs[id].progress
             /\ ProgressCalls(notifier_calls'[id]) = ProgressCalls(notifier_calls[id])]_vars

\* C31 witness: a pipeline job was cancelled between its training and its
\* evaluation step, and its task has run since and ended.
C31_Witness ==
    \E id \in DOMAIN jobs :
        /\ jobs[id].job_type = PIPELINE
        /\ CancelledWhileRunning(jobs[id])
        /\ jobs[id].status = CANCELLED
        /\ jobs[id].progress # None
        /\ jobs[id].progress[1].completed_steps = 1
        /\ tasks[id].pc = "done"
        /\ \E k \in DOMAIN jobs[id].logs : jobs[id].logs[k][1] = "Job execution cancelled"

\* C32: every progress update applied to a job that has an origin and a
\* notification handle triggers a Notifier progress call for that job before
\* the next progress update of the same job: a step that replaces the
\* progress of such a job finds a progress call issued for the step it
\* replaces.
C32_ProgressUpdateNotified ==
    [][\A id \in DOMAIN jobs :
          ( /\ HasNotifier(jobs[id])
            /\ jobs[id].progress # None
            /\ jobs'[id].progress # jobs[id].progress )
          => \E k \in DOMAIN notifier_calls[id] :
                notifier_calls[id][k] = <<"progress", jobs[id].progress[1].current_step>>]_vars

\* C33: once a job's status is Cancelled, no later step of its task (a step
\* resuming after the cancellation request, a normal return, or a raised
\* error) sets the status to Completed or Failed or stores a result:
\* Cancelled is absorbing for the task.
C33_CancelledAbsorbingForTask ==
    [][\A id \in DOMAIN jobs :
          (TaskRun(id) /\ jobs[id].status = CANCELLED)
          => /\ jobs'[id].status = CANCELLED
             /\ jobs'[id].result = jobs[id].result]_vars

\* C33 witness: a looped job was cancelled after a progress call had been
\* issued for it, and its task has run since and ended, the job still
\* Cancelled and without result.
C33_Witness ==
    \E id \in DOMAIN jobs :
        /\ jobs[id].job_type \in {TRAIN, EVAL, TEST}
        /\ jobs[id].status = CANCELLED
        /\ jobs[id].result = None
        /\ notifier_calls[id] # <<>>
        /\ tasks[id].pc = "done"
        /\ jobs[id].logs[Len(jobs[id].logs)][1] = "Job execution cancelled"

\* The step is an update_progress call on the probed job.
ProgressCall == probe'.n = probe.n + 1 /\ probe'.args # None

\* C34: a progress update whose completed_steps exceeds total_steps (or is
\* negative) stores a percentage clamped into [0,100] (100, respectively 0)
\* and does not raise an error.
C34_PercentageClamped ==
    [][ProgressCall
       => LET completed == probe'.args[1][1]
              total == probe'.args[1][2]
          IN /\ (total > 0 /\ completed > total)
                => /\ ~probe'.raised
                   /\ probe'.job.progress # None
                   /\ probe'.job.progress[1].completed_steps = completed
                   /\ probe'.job.progress[1].progress_percentage = 1000
             /\ completed < 0
                => /\ ~probe'.raised
                   /\ probe'.job.progress # None
                   /\ probe'.job.progress[1].completed_steps = completed
                   /\ probe'.job.progress[1].progress_percentage = 0]_vars

\* The step is a call of the callback endpoint.
CallbackCall == ncalls' = ncalls + 1 /\ last'.op = "callback"

\* C35: after a job has been handed to start, only the engine writes its
\* status, progress, result, started_at, completed_at and log: no step of the
\* callback endpoint or of the stream changes a job of the table.
C35_OnlyEngineWritesJob ==
    [][(CallbackCall \/ stream' # stream) => jobs' = jobs]_vars

\* C36: the callback endpoint, for a known job id and any payload, leaves the
\* job's status, result, progress, started_at and completed_at unchanged and
\* leaves the running-task map unchanged; for an unknown job id it reports
\* not found and changes nothing.
C36_CallbackKeepsJobState ==
    [][\A job_id \in JobIds :
          (CallbackCall /\ last'.id = job_id)
          => IF job_id \in DOMAIN jobs
             THEN /\ last'.ret
                  /\ jobs'[job_id].status = jobs[job_id].status
                  /\ jobs'[job_id].result = jobs[job_id].result
                  /\ jobs'[job_id].progress = jobs[job_id].progress
                  /\ jobs'[job_id].started_at = jobs[job_id].started_at
                  /\ jobs'[job_id].completed_at = jobs[job_id].completed_at
                  /\ UNCHANGED <<active_tasks, tasks>>
             ELSE /\ ~last'.ret
                  /\ UNCHANGED <<jobs, job_order, active_tasks, tasks>>]_vars

\* C36 witness: a callback with status "completed" was received for a job
\* that is running and has reported progress; the job is still running and
\* still has its handle.
C36_Witness ==
    \E id \in DOMAIN jobs :
        /\ last = [op |-> "callback", id |-> id, reason |-> "completed", ret |-> TRUE]
        /\ jobs[id].status = RUNNING
        /\ jobs[id].progress # None
        /\ jobs[id].result = None
        /\ id \in active_tasks
        /\ jobs[id].logs[Len(jobs[id].logs)] = <<"External callback received", "completed">>

\* C40: the server-sent-events stream of a job id stops after emitting the
\* first update that shows a terminal status or after one not-found message:
\* a stream that has stopped has emitted, last, the not-found message or an
\* update with a terminal status, and the generator stops when it resumes
\* from such an update.
C40_StreamStopsOnTerminalUpdate ==
    /\ [](stream.pc = "closed"
          => stream.update \in {Some("Job not found")} \cup {Some(st) : st \in Terminal})
    /\ [][( /\ stream' # stream
            /\ \/ stream.pc = "yield_error"
               \/ stream.pc = "yield" /\ stream.update[1] \in Terminal )
          => stream'.pc = "closed"]_vars

\* C39: a job-creating command (train, eval, pipeline, test) received from a
\* GitHub comment starts a job only when its command type is allowed in the
\* comment's context by the command routing rules: train, eval and pipeline
\* only from issue comments, test only from pull-request comments.
C39_JobOnlyInAllowedContext ==
    [][( /\ CommandStep
         /\ reply'.op = "comment"
         /\ managers' # managers )
       => is_command_allowed_in_context(parse_command(reply'.text[1])[1].command_type,
                                        reply'.context_type[1])]_vars

\* C37: once cancel_execution has returned True for an execution, its status
\* stays CANCELLED and its completed_at is not rewritten: no step takes an
\* execution whose status is CANCELLED to another status or to another
\* completed_at.
C37_CancelledExecutionStays ==
    [][\A e \in DOMAIN executions :
          executions[e].status = CANCELLED
          => /\ executions'[e].status = CANCELLED
             /\ executions'[e].completed_at = executions[e].completed_at]_vars

\* cancel_execution has returned True for the execution before.
CancelledByUser(execution) ==
    \E k \in DOMAIN execution.logs :
        execution.logs[k] = "Workflow execution cancelled by user"

\* C38: cancel_execution returns False and leaves the executions unchanged
\* when the execution id is unknown or the execution is already COMPLETED,
\* FAILED or CANCELLED; it returns True only for an execution that is QUEUED
\* or RUNNING, and a cancel of an execution that was cancelled before
\* returns False.
C38_CancelExecutionResult ==
    [][WorkflowCall("cancel_execution")
       => LET execution_id == wf_last'.execution_id IN
          /\ ( \/ execution_id \notin DOMAIN executions
               \/ executions[execution_id].status \in {COMPLETED, FAILED, CANCELLED} )
             => ~wf_last'.ret /\ executions' = executions
          /\ wf_last'.ret
             => /\ execution_id \in DOMAIN executions
                /\ executions[execution_id].status \in {QUEUED, RUNNING}
                /\ ~CancelledByUser(executions[execution_id])]_vars

\* A second cancel of an execution has returned False, after the task of the
\* execution had gone on to mark it completed.
C38_Witness ==
    /\ wf_last.op = "cancel_execution"
    /\ ~wf_last.ret
    /\ wf_last.execution_id \in DOMAIN executions
    /\ CancelledByUser(executions[wf_last.execution_id])
    /\ executions[wf_last.execution_id].status = COMPLETED

====
